---- MODULE Spec2Model ----
(***************************************************************************)
(* Model of the SBOM utility scripts of konflux-ci/build-tasks-dockerfiles *)
(*   merge-sboms-script/merge_sboms.py         (CycloneDX flat merge)      *)
(*   merge-cachi2-sboms-script/merge_cachi2_sboms.py  (SPDX graph merge)   *)
(*   contextual-sbom/src/parent_content.py     (parent image lineage)      *)
(*   contextual-sbom/src/parsed_dockerfile.py  (base images of the stages) *)
(*   base-images-sbom-script/app/base_images_sbom_script.py                *)
(*                                                                         *)
(* Strings whose content the code inspects (startswith, lower, quote_plus, *)
(* concatenation) are sequences of one-character strings; identifiers the  *)
(* code only compares for equality are TLA+ strings.                       *)
(***************************************************************************)
EXTENDS Integers, Sequences, FiniteSets, TLC

VARIABLES
    \* merge_sboms.py, merge_by_prefering_cachi2
    syft_components,    \* the scanner's component list
    cachi2_components,  \* the resolver's component list
    merged,             \* the list merge_by_prefering_cachi2 returns
    prefer_pc,          \* "input", "done" or "raised"
    \* merge_sboms.py, merge_n_syft_sboms
    sboms,              \* the syft documents loaded so far
    merged_sbom,        \* the document merge_n_syft_sboms returns
    syft_pc,            \* "load", "done" or "raised"
    \* merge_cachi2_sboms.py, merge_sboms(format="spdx")
    syft_sbom,          \* the base document as loaded
    cachi2_sbom,        \* the incoming document as loaded
    spdx_out,           \* the document merge_sboms dumps
    spdx_pc,            \* "input", "done", "raised", "again" or "raised again"
    spdx_counterpart,   \* the document the output is merged with again
    spdx_side,          \* "incoming" or "base": the side the counterpart is given as
    spdx_again,         \* the document the second merge dumps
    \* merge_cachi2_sboms.py, merge_relationships on its own
    relationships1,     \* the base relationships
    relationships2,     \* the incoming relationships
    packages,           \* the merged packages
    relationships,      \* the list merge_relationships returns
    rel_pc,             \* "input", "done" or "raised"
    \* contextual-sbom/src/parent_content.py, as main.py calls it
    parent_sbom_doc,    \* the parent document
    parent_orig,        \* the parent document as parsed
    grandparent_spdx_id,\* what get_used_parent_image_from_legacy_sbom returned
    parent_pc,          \* "parsed", "identified", "adjusted", "renamed",
                        \* "cleaned", "exit(1)" or "IndexError"
    parent_prev,        \* the parent document before the latest call
    component_sbom_doc, \* the component document given to
                        \* adjust_parent_image_spdx_element_ids
    \* merge_sboms.py, _merge_tools_metadata on its own
    sbom_a_tools,       \* sbom_a["metadata"]["tools"] before the call
    sbom_b_tools,       \* sbom_b["metadata"]["tools"]
    merged_tools,       \* sbom_a["metadata"]["tools"] after the call
    tools_pc,           \* "input", "done" or "raised"
    \* base-images-sbom-script/app/base_images_sbom_script.py, main with
    \* --sbom-type spdx, and the lineage rewrite of its output
    base_images_digests,\* the lines of the --base-images-digests file
    is_last_from_scratch,
    base_sbom_in,       \* the SPDX document as loaded from --sbom
    base_components,    \* what get_base_images_sbom_components returned
    base_sbom,          \* the SPDX document main dumps
    base_doc,           \* that document as parent_content.py holds it
    base_grandparent,   \* what get_used_parent_image_from_legacy_sbom returned
    base_pc,            \* "input", "components", "ValueError", "dumped",
                        \* "parsed" or "adjusted"
    \* contextual-sbom/src/parsed_dockerfile.py, as main.py calls it
    parsed_dockerfile,  \* the list under "Stages"
    target_stage,       \* --target-stage
    base_images,        \* what get_base_images returned
    parent_image,       \* what get_parent_image_pullspec returned
    docker_pc,          \* "loaded", "listed", "resolved" or "ValueError"
    \* contextual-sbom/src/parent_content.py, download_parent_image_sbom
    dl_pullspec,        \* the pullspec argument
    dl_arch,            \* the arch argument
    oras_stdout,        \* stdout of oras manifest fetch
    cosign_command,     \* the command line given to the second subprocess.run
    cosign_stdout,      \* stdout of cosign download sbom
    dl_result,          \* the value download_parent_image_sbom returned
    dl_pc               \* "called", "fetched", "returned", "exit(0)" or
                        \* the name of an exception that was not caught

preferVars == <<syft_components, cachi2_components, merged, prefer_pc>>
syftVars   == <<sboms, merged_sbom, syft_pc>>
spdxVars   == <<syft_sbom, cachi2_sbom, spdx_out, spdx_pc,
                spdx_counterpart, spdx_side, spdx_again>>
relVars    == <<relationships1, relationships2, packages, relationships, rel_pc>>
parentVars == <<parent_sbom_doc, parent_orig, grandparent_spdx_id, parent_pc,
                parent_prev, component_sbom_doc>>
toolsVars  == <<sbom_a_tools, sbom_b_tools, merged_tools, tools_pc>>
baseVars   == <<base_images_digests, is_last_from_scratch, base_sbom_in,
                base_components, base_sbom, base_doc, base_grandparent, base_pc>>
dockerVars == <<parsed_dockerfile, target_stage, base_images, parent_image, docker_pc>>
downloadVars == <<dl_pullspec, dl_arch, oras_stdout, cosign_command, cosign_stdout,
                  dl_result, dl_pc>>
vars == <<preferVars, syftVars, spdxVars, relVars, parentVars, toolsVars,
          baseVars, dockerVars, downloadVars>>

None == "None"

(***************************************************************************)
(* Python string operations on sequences of characters                     *)
(***************************************************************************)
Digits == {"0", "1", "2", "3", "4", "5", "6", "7", "8", "9"}

\* str.startswith
StartsWith(s, prefix) ==
    /\ Len(s) >= Len(prefix)
    /\ SubSeq(s, 1, Len(prefix)) = prefix

\* str.removeprefix
RemovePrefix(s, prefix) ==
    IF StartsWith(s, prefix) THEN SubSeq(s, Len(prefix) + 1, Len(s)) ELSE s

\* str.isdecimal
IsDecimal(s) == Len(s) > 0 /\ \A i \in 1..Len(s) : s[i] \in Digits

LowerChar(c) ==
    CASE c = "A" -> "a"
      [] c = "E" -> "e"
      [] c = "F" -> "f"
      [] c = "X" -> "x"
      [] c = "S" -> "s"
      [] OTHER -> c

\* str.lower
Lower(s) == [i \in 1..Len(s) |-> LowerChar(s[i])]

RECURSIVE Flatten(_)
Flatten(ss) == IF ss = <<>> THEN <<>> ELSE Head(ss) \o Flatten(Tail(ss))

\* urllib.parse.quote_plus on one character: letters, digits and "_.-~" are
\* kept, a space becomes "+", anything else is percent-encoded
QuotePlusChar(c) ==
    CASE c = "+" -> <<"%", "2", "B">>
      [] c = "(" -> <<"%", "2", "8">>
      [] c = ")" -> <<"%", "2", "9">>
      [] c = "/" -> <<"%", "2", "F">>
      [] c = "%" -> <<"%", "2", "5">>
      [] c = "@" -> <<"%", "4", "0">>
      [] c = " " -> <<"+">>
      [] OTHER -> <<c>>

QuotePlus(s) == Flatten([i \in 1..Len(s) |-> QuotePlusChar(s[i])])

\* urllib.parse.quote as packageurl uses it (safe="/", "%3A" turned back)
QuoteChar(c) ==
    CASE c = "/" -> <<"/">>
      [] c = " " -> <<"%", "2", "0">>
      [] OTHER -> QuotePlusChar(c)

Quote(s) == Flatten([i \in 1..Len(s) |-> QuoteChar(s[i])])

(***************************************************************************)
(* packageurl.PackageURL as merge_sboms.py uses it.  A purl is a record of *)
(* character sequences; <<>> stands for an absent (None or empty) field.   *)
(* qualifiers is a sequence of <<key, value>> pairs in key order.          *)
(***************************************************************************)
Golang == <<"g", "o", "l", "a", "n", "g">>
Pypi   == <<"p", "y", "p", "i">>
Npm    == <<"n", "p", "m">>
Devel  == <<"(", "d", "e", "v", "e", "l", ")">>
VcsUrl      == <<"v", "c", "s", "_", "u", "r", "l">>
DownloadUrl == <<"d", "o", "w", "n", "l", "o", "a", "d", "_", "u", "r", "l">>

Purl(type, namespace, name, version, qualifiers, subpath) ==
    [type |-> type, namespace |-> namespace, name |-> name,
     version |-> version, qualifiers |-> qualifiers, subpath |-> subpath]

\* what CDXComponent.purl() returns as None
NoPurl == Purl(<<>>, <<>>, <<>>, <<>>, <<>>, <<>>)

RECURSIVE QualifiersToString(_)
QualifiersToString(qs) ==
    IF qs = <<>> THEN <<>>
    ELSE Head(qs)[1] \o <<"=">> \o Quote(Head(qs)[2])
         \o (IF Tail(qs) = <<>> THEN <<>> ELSE <<"&">> \o QualifiersToString(Tail(qs)))

\* PackageURL.to_string: pkg:type/namespace/name@version?qualifiers#subpath,
\* every part percent-encoded, a pypi name lower-cased
PurlToString(p) ==
    <<"p", "k", "g", ":">> \o p.type \o <<"/">>
    \o (IF p.namespace # <<>> THEN Quote(p.namespace) \o <<"/">> ELSE <<>>)
    \o Quote(IF p.type = Pypi THEN Lower(p.name) ELSE p.name)
    \o (IF p.version # <<>> THEN <<"@">> \o Quote(p.version) ELSE <<>>)
    \o (IF p.qualifiers # <<>> THEN <<"?">> \o QualifiersToString(p.qualifiers) ELSE <<>>)
    \o (IF p.subpath # <<>> THEN <<"#">> \o Quote(p.subpath) ELSE <<>>)

\* pathlib.Path(namespace or "", name): the segments joined by "/"
PathJoin(namespace, name) ==
    IF namespace = <<>> THEN name ELSE namespace \o <<"/">> \o name

(***************************************************************************)
(* CDXComponent: name(), version() and purl() of a component's data.       *)
(* purl is NoPurl when data has no purl, an empty one, or one that does not  *)
(* parse (try_parse_purl).  properties stands for the rest of the data.    *)
(***************************************************************************)
Component(name, version, purl, properties) ==
    [name |-> name, version |-> version, purl |-> purl, properties |-> properties]

\* _subpath_is_version
SubpathIsVersion(subpath) ==
    StartsWith(subpath, <<"v">>) /\ IsDecimal(RemovePrefix(subpath, <<"v">>))

\* _is_syft_local_golang_component
IsSyftLocalGolangComponent(component) ==
    LET purl == component.purl IN
    IF purl = NoPurl \/ purl.type # Golang THEN FALSE
    ELSE IF purl.subpath # <<>> /\ ~SubpathIsVersion(purl.subpath) THEN TRUE
    ELSE StartsWith(component.name, <<".">>) \/ component.version = Devel

\* _is_cachi2_non_registry_dependency
IsCachi2NonRegistryDependency(component) ==
    LET purl == component.purl IN
    IF purl = NoPurl THEN FALSE
    ELSE /\ purl.type \in {Pypi, Npm}
         /\ \E i \in 1..Len(purl.qualifiers) :
               purl.qualifiers[i][1] \in {VcsUrl, DownloadUrl}

\* _unique_key_cachi2 raises ValueError for a component without purl
UniqueKeyCachi2Raises(component) == component.purl = NoPurl

\* _unique_key_cachi2: the purl without qualifiers and subpath
UniqueKeyCachi2(component) ==
    PurlToString([component.purl EXCEPT !.qualifiers = <<>>, !.subpath = <<>>])

\* _unique_key_syft
UniqueKeySyft(component) ==
    LET purl == component.purl IN
    IF purl = NoPurl THEN component.name \o <<"@">> \o component.version
    ELSE LET name1 == IF purl.type = Pypi THEN Lower(purl.name) ELSE purl.name
             isGo == purl.type = Golang
             version == IF isGo /\ purl.version # <<>>
                        THEN QuotePlus(purl.version) ELSE purl.version
             fold == isGo /\ purl.subpath # <<>> /\ SubpathIsVersion(purl.subpath)
             name == IF fold THEN name1 \o <<"/">> \o purl.subpath ELSE name1
             subpath == IF fold THEN <<>> ELSE purl.subpath
         IN PurlToString([purl EXCEPT !.name = name, !.version = version,
                                      !.subpath = subpath])

\* _get_syft_component_filter: the three collections it builds
Cachi2NonRegistryComponents(cachi) ==
    {cachi[i].name : i \in {j \in 1..Len(cachi) : IsCachi2NonRegistryDependency(cachi[j])}}

Cachi2LocalPaths(cachi) ==
    {cachi[i].purl.subpath :
        i \in {j \in 1..Len(cachi) : cachi[j].purl # NoPurl /\ cachi[j].purl.subpath # <<>>}}

Cachi2IndexedComponents(cachi) == {UniqueKeyCachi2(cachi[i]) : i \in 1..Len(cachi)}

\* is_duplicate_non_registry_component
IsDuplicateNonRegistryComponent(cachi, component) ==
    component.name \in Cachi2NonRegistryComponents(cachi)

\* is_duplicate_npm_localpath_component
IsDuplicateNpmLocalpathComponent(cachi, component) ==
    LET purl == component.purl IN
    IF purl = NoPurl \/ purl.type # Npm THEN FALSE
    ELSE PathJoin(purl.namespace, purl.name) \in Cachi2LocalPaths(cachi)

\* a filter that forgets the local golang replacements
ComponentIsDuplicated_NoLocal(cachi, component) ==
    \/ IsDuplicateNonRegistryComponent(cachi, component)
    \/ IsDuplicateNpmLocalpathComponent(cachi, component)
    \/ UniqueKeySyft(component) \in Cachi2IndexedComponents(cachi)

\* component_is_duplicated
ComponentIsDuplicated(cachi, component) ==
    \/ IsSyftLocalGolangComponent(component)
    \/ IsDuplicateNonRegistryComponent(cachi, component)
    \/ IsDuplicateNpmLocalpathComponent(cachi, component)
    \/ UniqueKeySyft(component) \in Cachi2IndexedComponents(cachi)

\* merge_by_prefering_cachi2 raises when _get_syft_component_filter does
MergeByPreferingCachi2Raises(syft, cachi) ==
    \E i \in 1..Len(cachi) : UniqueKeyCachi2Raises(cachi[i])

\* a merge that puts the resolver's entries first
MergeByPreferingCachi2_Cachi2First(syft, cachi) ==
    cachi \o SelectSeq(syft, LAMBDA c : ~ComponentIsDuplicated(cachi, c))

\* merge_by_prefering_cachi2
MergeByPreferingCachi2(syft, cachi) ==
    SelectSeq(syft, LAMBDA c : ~ComponentIsDuplicated(cachi, c)) \o cachi

(***************************************************************************)
(* merge_by_apparent_sameness, _merge, _dedupe                             *)
(***************************************************************************)
\* merge_by_apparent_sameness.key
ApparentKey(component) ==
    IF component.purl # NoPurl THEN PurlToString(component.purl)
    ELSE component.name \o <<"@">> \o component.version

\* _dedupe: dict.setdefault keeps the first item of every key, and the dict
\* keeps the keys in insertion order; keys[i] is by_key(items[i])
RECURSIVE DedupeLoop(_, _, _)
DedupeLoop(items, keys, seen) ==
    IF items = <<>> THEN <<>>
    ELSE IF Head(keys) \in seen THEN DedupeLoop(Tail(items), Tail(keys), seen)
    ELSE <<Head(items)>> \o DedupeLoop(Tail(items), Tail(keys), seen \cup {Head(keys)})

Dedupe(items, keys) == DedupeLoop(items, keys, {})

\* _merge
Merge(items_a, items_b, keys_a, keys_b) == Dedupe(items_a \o items_b, keys_a \o keys_b)

\* by_key applied to every item
ApparentKeys(components) == [i \in 1..Len(components) |-> ApparentKey(components[i])]

\* a merge that chains its arguments the other way round
MergeByApparentSameness_RightFirst(components_a, components_b) ==
    Merge(components_b, components_a, ApparentKeys(components_b), ApparentKeys(components_a))

\* merge_by_apparent_sameness
MergeByApparentSameness(components_a, components_b) ==
    Merge(components_a, components_b, ApparentKeys(components_a), ApparentKeys(components_b))

(***************************************************************************)
(* _merge_tools_metadata of merge_sboms.py.  metadata.tools is a record    *)
(* [shape, items]: shape "dict" is the 1.5 style {components: items},      *)
(* "list" the 1.4 style, "invalid" anything else.  An entry has the keys   *)
(* name, version, vendor, author and type, <<>> standing for an absent key.*)
(***************************************************************************)
Tool(name, version, vendor, author, type) ==
    [name |-> name, version |-> version, vendor |-> vendor, author |-> author,
     type |-> type, purl |-> NoPurl]

Application == <<"a", "p", "p">>

\* tool_to_component
ToolToComponent(tool) ==
    Tool(tool.name, tool.version, <<>>, tool.vendor, Application)

\* component_to_tool
ComponentToTool(component) ==
    Tool(component.name, component.version, component.author, <<>>, <<>>)

\* lambda t: (t["name"], t.get("version"))
ToolKey(t) == <<t.name, t.version>>

\* by_key applied to every tool
ToolKeys(tools) == [i \in 1..Len(tools) |-> ToolKey(tools[i])]

\* a check that looks at the type of tools_b only
MergeToolsMetadataRaises_RightOnly(tools_a, tools_b) ==
    tools_b.shape \notin {"dict", "list"}

\* _merge_tools_metadata raises: tools_a of an unexpected type (RuntimeError),
\* or tools_b that cannot be iterated as tools
MergeToolsMetadataRaises(tools_a, tools_b) ==
    tools_a.shape \notin {"dict", "list"} \/ tools_b.shape \notin {"dict", "list"}

\* _merge_tools_metadata: the new value of sbom_a["metadata"]["tools"]
MergeToolsMetadata(tools_a, tools_b) ==
    IF tools_a.shape = "dict"
    THEN LET components_b == IF tools_b.shape = "dict" THEN tools_b.items
                             ELSE [i \in 1..Len(tools_b.items) |-> ToolToComponent(tools_b.items[i])]
         IN [shape |-> "dict",
             items |-> MergeByApparentSameness(tools_a.items, components_b)]
    ELSE LET tools_b1 == IF tools_b.shape = "dict"
                         THEN [i \in 1..Len(tools_b.items) |-> ComponentToTool(tools_b.items[i])]
                         ELSE tools_b.items
         IN [shape |-> "list", items |-> Merge(tools_a.items, tools_b1, ToolKeys(tools_a.items), ToolKeys(tools_b1))]

(***************************************************************************)
(* merge_cyclonedx_sboms and merge_n_syft_sboms.  A document is a record   *)
(* [components, tools]; a call yields [raised, sbom].                      *)
(***************************************************************************)
Sbom(components, tools) == [components |-> components, tools |-> tools]

\* merge_cyclonedx_sboms with merge_components = merge_by_apparent_sameness
MergeCyclonedxSboms(sbom_a, sbom_b) ==
    [raised |-> MergeToolsMetadataRaises(sbom_a.tools, sbom_b.tools),
     sbom   |-> Sbom(MergeByApparentSameness(sbom_a.components, sbom_b.components),
                     IF MergeToolsMetadataRaises(sbom_a.tools, sbom_b.tools)
                     THEN sbom_a.tools
                     ELSE MergeToolsMetadata(sbom_a.tools, sbom_b.tools))]

\* functools.reduce(merge, sboms) from the accumulated document acc
RECURSIVE Reduce(_, _)
Reduce(acc, rest) ==
    IF rest = <<>> THEN [raised |-> FALSE, sbom |-> acc]
    ELSE LET step == MergeCyclonedxSboms(acc, Head(rest))
         IN IF step.raised THEN step ELSE Reduce(step.sbom, Tail(rest))

\* merge_n_syft_sboms: reduce of an empty list raises TypeError, reduce of a
\* single document returns it as it is
MergeNSyftSboms(docs) ==
    IF docs = <<>> THEN [raised |-> TRUE, sbom |-> Sbom(<<>>, [shape |-> "list", items |-> <<>>])]
    ELSE Reduce(Head(docs), Tail(docs))

(***************************************************************************)
(* merge_cachi2_sboms.py: SPDX packages.                                   *)
(* A package is [SPDXID, name, versionInfo, externalRefs, annotations].    *)
(* An external reference is [referenceCategory, referenceType, purl, text]:*)
(* its referenceLocator is PurlToString(purl) when referenceType is purl   *)
(* (purl is what PackageURL.from_string makes of it) and text otherwise.   *)
(***************************************************************************)
Package(id, name, versionInfo, externalRefs, annotations) ==
    [SPDXID |-> id, name |-> name, versionInfo |-> versionInfo,
     externalRefs |-> externalRefs, annotations |-> annotations]

Ref(category, type, purl, text) ==
    [referenceCategory |-> category, referenceType |-> type, purl |-> purl, text |-> text]

\* str.lower on a referenceType
LowerType(t) == IF t = "PURL" THEN "purl" ELSE t

ReferenceLocator(ref) ==
    IF LowerType(ref.referenceType) = "purl" THEN PurlToString(ref.purl) ELSE ref.text

\* the references of a package with referenceType == "purl", in order
PurlRefs(package) ==
    SelectSeq(package.externalRefs, LAMBDA ref : ref.referenceType = "purl")

SeqToSet(items) == {items[i] : i \in 1..Len(items)}

\* parsed_purl.type + "/" + (parsed_purl.namespace or "") + "/" + parsed_purl.name
TypeNamespaceName(purl) == purl.type \o <<"/">> \o purl.namespace \o <<"/">> \o purl.name

\* _is_syft_local_golang_package
IsSyftLocalGolangPackage(package) ==
    \E i \in 1..Len(package.externalRefs) :
        LET ref == package.externalRefs[i] IN
        /\ ref.referenceType = "purl"
        /\ ref.purl.type = Golang
        /\ (StartsWith(package.name, <<".">>) \/ package.versionInfo = Devel)

\* _is_cachi2_non_registry_dependency_spdx
IsCachi2NonRegistryDependencySpdx(package) ==
    \E i \in 1..Len(package.externalRefs) :
        LET ref == package.externalRefs[i] IN
        /\ ref.referenceType = "purl"
        /\ ref.purl.type \in {Pypi, Npm}
        /\ \E q \in 1..Len(ref.purl.qualifiers) :
              ref.purl.qualifiers[q][1] \in {VcsUrl, DownloadUrl}

\* _unique_key_cachi2_spdx on one purl
UniqueKeyCachi2SpdxOf(purl) ==
    (IF purl.type = Pypi THEN Lower(TypeNamespaceName(purl)) ELSE TypeNamespaceName(purl))
    \o <<"@">>
    \o (IF purl.type = Golang THEN QuotePlus(purl.version) ELSE purl.version)

\* _unique_key_cachi2_spdx
UniqueKeyCachi2Spdx(package) ==
    [i \in 1..Len(PurlRefs(package)) |-> UniqueKeyCachi2SpdxOf(PurlRefs(package)[i].purl)]

\* _unique_keys_syft_spdx on one purl
UniqueKeysSyftSpdxOf(purl) ==
    IF purl.version # <<>>
    THEN Lower(TypeNamespaceName(purl)) \o <<"@">>
         \o (IF purl.type = Golang THEN QuotePlus(purl.version) ELSE purl.version)
    ELSE PurlToString(purl)

\* _unique_keys_syft_spdx
UniqueKeysSyftSpdx(package) ==
    IF PurlRefs(package) = <<>>
    THEN <<package.name \o <<"@">> \o package.versionInfo>>
    ELSE [i \in 1..Len(PurlRefs(package)) |-> UniqueKeysSyftSpdxOf(PurlRefs(package)[i].purl)]

\* _get_syft_package_filter: the two collections it builds
Cachi2NonRegistryPackages(cachi) ==
    {cachi[i].name : i \in {j \in 1..Len(cachi) : IsCachi2NonRegistryDependencySpdx(cachi[j])}}

Cachi2IndexedPackages(cachi) ==
    UNION {SeqToSet(UniqueKeyCachi2Spdx(cachi[i])) : i \in 1..Len(cachi)}

\* package_is_duplicated
PackageIsDuplicated(cachi, package) ==
    \/ IsSyftLocalGolangPackage(package)
    \/ package.name \in Cachi2NonRegistryPackages(cachi)
    \/ SeqToSet(UniqueKeysSyftSpdx(package)) \cap Cachi2IndexedPackages(cachi) # {}

(***************************************************************************)
(* Python's order on strings: code point order, here of the characters and *)
(* identifiers the model uses.                                             *)
(***************************************************************************)
Ascii == <<" ", "#", "%", "(", ")", "+", "-", ".", "/",
           "0", "1", "2", "3", "4", "5", "6", "7", "8", "9",
           ":", "=", "?", "@", "A", "B", "E", "F", "X", "_",
           "a", "b", "c", "d", "e", "f", "g", "h", "i", "k", "l", "m", "n", "o",
           "p", "r", "s", "t", "u", "v", "w", "x", "y">>

CharRank(c) == CHOOSE i \in 1..Len(Ascii) : Ascii[i] = c

RECURSIVE StrLess(_, _)
StrLess(a, b) ==
    IF b = <<>> THEN FALSE
    ELSE IF a = <<>> THEN TRUE
    ELSE IF Head(a) = Head(b) THEN StrLess(Tail(a), Tail(b))
    ELSE CharRank(Head(a)) < CharRank(Head(b))

AtomOrder == <<"OTHER", "PACKAGE-MANAGER", "PURL", "SECURITY", "cpe23Type",
               "package-manager", "purl", "security">>

AtomRank(a) == CHOOSE i \in 1..Len(AtomOrder) : AtomOrder[i] = a

\* str.lower on a referenceCategory
LowerCategory(c) ==
    CASE c = "PACKAGE-MANAGER" -> "package-manager"
      [] c = "SECURITY" -> "security"
      [] OTHER -> c

\* the sort key of merge_packages: (referenceCategory, referenceType, referenceLocator)
RefLess(x, y) ==
    IF x.referenceCategory # y.referenceCategory
    THEN AtomRank(x.referenceCategory) < AtomRank(y.referenceCategory)
    ELSE IF x.referenceType # y.referenceType
    THEN AtomRank(x.referenceType) < AtomRank(y.referenceType)
    ELSE StrLess(ReferenceLocator(x), ReferenceLocator(y))

\* sorted(refs, key): stable
RECURSIVE InsertSorted(_, _)
InsertSorted(x, sortedRefs) ==
    IF sortedRefs = <<>> THEN <<x>>
    ELSE IF RefLess(x, Head(sortedRefs)) THEN <<x>> \o sortedRefs
    ELSE <<Head(sortedRefs)>> \o InsertSorted(x, Tail(sortedRefs))

RECURSIVE Sorted(_)
Sorted(refs) ==
    IF refs = <<>> THEN <<>>
    ELSE InsertSorted(refs[Len(refs)], Sorted(SubSeq(refs, 1, Len(refs) - 1)))

(***************************************************************************)
(* merge_external_refs and merge_annotations                               *)
(***************************************************************************)
\* the copy of a reference whose purl has lost its qualifiers
WithoutQualifiers(ref) ==
    IF LowerType(ref.referenceType) = "purl"
    THEN [ref EXCEPT !.purl = [ref.purl EXCEPT !.qualifiers = <<>>]]
    ELSE ref

\* the tuple merge_external_refs compares references by
RefTuple(ref) ==
    <<LowerCategory(ref.referenceCategory), LowerType(ref.referenceType),
      Lower(ReferenceLocator(WithoutQualifiers(ref)))>>

\* merge_external_refs
MergeExternalRefs(refs1, refs2) ==
    LET ref_tuples == {RefTuple(refs1[i]) : i \in 1..Len(refs1)}
        unique_refs2 == SelectSeq([i \in 1..Len(refs2) |-> WithoutQualifiers(refs2[i])],
                                  LAMBDA ref : RefTuple(ref) \notin ref_tuples)
    IN refs1 \o unique_refs2

Annotation(annotator, comment, date, type) ==
    [annotator |-> annotator, comment |-> comment,
     annotationDate |-> date, annotationType |-> type]

\* list(set): the elements of a set in the order given by rank
RECURSIVE SetToSeq(_, _)
SetToSeq(S, rank) ==
    IF S = {} THEN <<>>
    ELSE LET first == CHOOSE x \in S : \A y \in S : rank[x] <= rank[y]
         IN <<first>> \o SetToSeq(S \ {first}, rank)

\* merge_annotations: the tuples of both lists go through a Python set, whose
\* iteration order (rank) the language leaves open
MergeAnnotations(annotations1, annotations2, rank) ==
    SetToSeq(SeqToSet(annotations1) \cup SeqToSet(annotations2), rank)

(***************************************************************************)
(* merge_packages                                                          *)
(***************************************************************************)
\* get_package_key: json.dumps(sorted(set(keys))) identifies the set of keys
GetPackageKey(pkg) == SeqToSet(UniqueKeysSyftSpdx(pkg))

\* cachi2_packages_map: for a key, the last cachi2 package having it (0: none)
Cachi2PackagesMap(cachi, key) ==
    LET hits == {i \in 1..Len(cachi) : GetPackageKey(cachi[i]) = key}
    IN IF hits = {} THEN 0 ELSE CHOOSE i \in hits : \A j \in hits : j <= i

\* the body of the loop for one duplicate syft package p that is in the map:
\* cpackage is updated in place
MergeInto(cpackage, p, rank) ==
    [cpackage EXCEPT
        !.externalRefs = Sorted(MergeExternalRefs(cpackage.externalRefs, p.externalRefs)),
        !.annotations = MergeAnnotations(cpackage.annotations, p.annotations, rank)]

\* the loop of merge_packages over the syft packages still to visit; orig is
\* cachi2_sbom["packages"] as loaded (the filter and the map are built from
\* it before the loop), cachi the same list with the updates made so far
RECURSIVE MergePackagesLoop(_, _, _, _, _)
MergePackagesLoop(todo, filtered, orig, cachi, rank) ==
    IF todo = <<>> THEN filtered \o cachi
    ELSE LET p == Head(todo)
             at == Cachi2PackagesMap(orig, GetPackageKey(p))
         IN IF PackageIsDuplicated(orig, p)
            THEN IF at # 0
                 THEN MergePackagesLoop(Tail(todo), filtered, orig,
                          [cachi EXCEPT ![at] = MergeInto(cachi[at], p, rank)], rank)
                 ELSE MergePackagesLoop(Tail(todo), filtered, orig, cachi, rank)
            ELSE MergePackagesLoop(Tail(todo), filtered \o <<p>>, orig, cachi, rank)

\* merge_packages
MergePackages(syft_packages, cachi2_packages, rank) ==
    MergePackagesLoop(syft_packages, <<>>, cachi2_packages, cachi2_packages, rank)

(***************************************************************************)
(* merge_relationships.  A relationship is                                 *)
(* [spdxElementId, relatedSpdxElement, relationshipType].                  *)
(***************************************************************************)
Relationship(source, type, related) ==
    [spdxElementId |-> source, relatedSpdxElement |-> related, relationshipType |-> type]

\* the keys of relations_map in insertion order: the spdxElementIds in the
\* order of their first occurrence
RECURSIVE RelationsMapKeys(_, _)
RelationsMapKeys(rels, seen) ==
    IF rels = <<>> THEN <<>>
    ELSE IF Head(rels).spdxElementId \in seen THEN RelationsMapKeys(Tail(rels), seen)
    ELSE <<Head(rels).spdxElementId>>
         \o RelationsMapKeys(Tail(rels), seen \cup {Head(rels).spdxElementId})

\* the keys of relations_inverse_map
InverseMapKeys(rels) == {rels[i].relatedSpdxElement : i \in 1..Len(rels)}

\* relations_inverse_map.get(element): the spdxElementId of the last
\* relationship whose relatedSpdxElement is element
InverseMapGet(rels, element) ==
    LET hits == {i \in 1..Len(rels) : rels[i].relatedSpdxElement = element}
    IN IF hits = {} THEN None
       ELSE rels[CHOOSE i \in hits : \A j \in hits : j <= i].spdxElementId

\* map_relationships of merge_cachi2_sboms.py leaves parent_element unbound
\* when there is no relationship (UnboundLocalError at the return)
MapRelationshipsRaises(rels) == rels = <<>>

\* map_relationships: the root element, the first key of relations_map that
\* is not a key of the inverse map, or the last key when the loop never breaks
MapRelationshipsRoot(rels) ==
    LET keys == RelationsMapKeys(rels, {})
        roots == {i \in 1..Len(keys) : keys[i] \notin InverseMapKeys(rels)}
    IN IF roots = {} THEN keys[Len(keys)]
       ELSE keys[CHOOSE i \in roots : \A j \in roots : i <= j]

\* calculate_middle_element: the last key of the map whose inverse is the root
CalculateMiddleElement(root_element, rels) ==
    LET keys == RelationsMapKeys(rels, {})
        hits == {i \in 1..Len(keys) : InverseMapGet(rels, keys[i]) = root_element}
    IN IF hits = {} THEN None
       ELSE keys[CHOOSE i \in hits : \A j \in hits : j <= i]

\* the loop body over relationships2: <<>> when the relation is skipped,
\* else the rewritten relation
RewriteRelation(relation, root1, middle1, root2, middle2, package_ids) ==
    IF /\ relation.relatedSpdxElement = middle2
       /\ relation.spdxElementId = root2
       /\ relation.relationshipType = "DESCRIBES"
    THEN <<>>
    ELSE LET r1 == IF relation.spdxElementId = root2
                   THEN [relation EXCEPT !.spdxElementId = root1]
                   ELSE IF relation.relatedSpdxElement = root2
                   THEN [relation EXCEPT !.relatedSpdxElement = root1]
                   ELSE relation
             r2 == IF r1.spdxElementId = middle2
                   THEN [r1 EXCEPT !.spdxElementId = middle1] ELSE r1
             r3 == IF r2.relatedSpdxElement = middle2
                   THEN [r2 EXCEPT !.relatedSpdxElement = middle1] ELSE r2
         IN IF r3.relatedSpdxElement \in package_ids \/ r3.spdxElementId \in package_ids
            THEN <<r3>> ELSE <<>>

MergeRelationshipsRaises(rels1, rels2) ==
    MapRelationshipsRaises(rels1) \/ MapRelationshipsRaises(rels2)

\* a merge that does not re-root the incoming relations
MergeRelationships_NoReroot(rels1, rels2, pkgs) ==
    LET package_ids == {pkgs[i].SPDXID : i \in 1..Len(pkgs)}
    IN SelectSeq(rels2, LAMBDA relation : relation.relatedSpdxElement \in package_ids
                                          \/ relation.spdxElementId \in package_ids)
       \o SelectSeq(rels1, LAMBDA relation : relation.relatedSpdxElement \in package_ids)

\* merge_relationships
MergeRelationships(rels1, rels2, pkgs) ==
    LET root_element1 == MapRelationshipsRoot(rels1)
        root_element2 == MapRelationshipsRoot(rels2)
        package_ids == {pkgs[i].SPDXID : i \in 1..Len(pkgs)}
        middle_element1 == CalculateMiddleElement(root_element1, rels1)
        middle_element2 == CalculateMiddleElement(root_element2, rels2)
    IN Flatten([i \in 1..Len(rels2) |->
                  RewriteRelation(rels2[i], root_element1, middle_element1,
                                  root_element2, middle_element2, package_ids)])
       \o SelectSeq(rels1, LAMBDA relation : relation.relatedSpdxElement \in package_ids)

(***************************************************************************)
(* merge_sboms with format "spdx".  A document is                          *)
(* [packages, relationships, creators].                                    *)
(***************************************************************************)
SpdxDoc(pkgs, rels, creators) ==
    [packages |-> pkgs, relationships |-> rels, creators |-> creators]

MergeSbomsRaises(syft, cachi2) ==
    MergeRelationshipsRaises(syft.relationships, cachi2.relationships)

\* a merge that leaves the packages without relationship in
MergeSboms_NoPruning(syft, cachi2, rank) ==
    LET pkgs == MergePackages(syft.packages, cachi2.packages, rank)
    IN SpdxDoc(pkgs, MergeRelationships(syft.relationships, cachi2.relationships, pkgs),
               syft.creators \o cachi2.creators)

\* merge_sboms: the document whose dump it returns
MergeSboms(syft, cachi2, rank) ==
    LET pkgs == MergePackages(syft.packages, cachi2.packages, rank)
        rels == MergeRelationships(syft.relationships, cachi2.relationships, pkgs)
        packages_in_relationships ==
            {rels[i].spdxElementId : i \in 1..Len(rels)}
            \cup {rels[i].relatedSpdxElement : i \in 1..Len(rels)}
        filtered_packages ==
            SelectSeq(pkgs, LAMBDA package : package.SPDXID \in packages_in_relationships)
    IN SpdxDoc(filtered_packages, rels, syft.creators \o cachi2.creators)

(***************************************************************************)
(* contextual-sbom/src/parent_content.py.  A document is                   *)
(* [packages, relationships, annotations]; a relationship is               *)
(* [spdx_element_id, relationship_type, related_spdx_element_id], an       *)
(* annotation [spdx_id, annotation_comment], a package [spdx_id].          *)
(***************************************************************************)
Document(pkgs, rels, annotations) ==
    [packages |-> pkgs, relationships |-> rels, annotations |-> annotations]

Rel(source, type, related) ==
    [spdx_element_id |-> source, relationship_type |-> type,
     related_spdx_element_id |-> related]

DocAnnotation(id, comment) == [spdx_id |-> id, annotation_comment |-> comment]

\* the comment that marks the used parent image in a legacy SBOM
IsBaseImageComment == "{\"name\":\"konflux:container:is_base_image\",\"value\":\"true\"}"

\* get_used_parent_image_from_legacy_sbom
GetUsedParentImageFromLegacySbom(data) ==
    LET hits == {i \in 1..Len(data.annotations) :
                    data.annotations[i].annotation_comment = IsBaseImageComment}
    IN IF hits = {} THEN None
       ELSE data.annotations[CHOOSE i \in hits : \A j \in hits : i <= j].spdx_id

\* a conversion that renames the relationship and leaves its ends in place
ConvertToDescendantOfRelationship_NoFlip(sbom_doc, grandparent) ==
    LET original_relationship ==
            {i \in 1..Len(sbom_doc.relationships) :
                sbom_doc.relationships[i].spdx_element_id = grandparent}
        at == CHOOSE i \in original_relationship : TRUE
    IN IF original_relationship = {} THEN sbom_doc
       ELSE IF Cardinality(original_relationship) > 1 THEN sbom_doc
       ELSE IF sbom_doc.relationships[at].relationship_type # "BUILD_TOOL_OF" THEN sbom_doc
       ELSE [sbom_doc EXCEPT !.relationships[at].relationship_type = "DESCENDANT_OF"]

\* convert_to_descendant_of_relationship
ConvertToDescendantOfRelationship(sbom_doc, grandparent) ==
    LET original_relationship ==
            {i \in 1..Len(sbom_doc.relationships) :
                sbom_doc.relationships[i].spdx_element_id = grandparent}
        at == CHOOSE i \in original_relationship : TRUE
    IN IF original_relationship = {} THEN sbom_doc
       ELSE IF Cardinality(original_relationship) > 1 THEN sbom_doc
       ELSE IF sbom_doc.relationships[at].relationship_type # "BUILD_TOOL_OF" THEN sbom_doc
       ELSE [sbom_doc EXCEPT !.relationships[at] =
                Rel(sbom_doc.relationships[at].related_spdx_element_id,
                    "DESCENDANT_OF", grandparent)]

\* an adjustment that converts without looking for a DESCENDANT_OF
AdjustParentImageRelationshipInLegacySbom_NoCheck(sbom_doc, grandparent) ==
    IF grandparent = None \/ grandparent = "" THEN sbom_doc
    ELSE ConvertToDescendantOfRelationship(sbom_doc, grandparent)

\* adjust_parent_image_relationship_in_legacy_sbom
AdjustParentImageRelationshipInLegacySbom(sbom_doc, grandparent) ==
    IF grandparent = None \/ grandparent = "" THEN sbom_doc
    ELSE IF \E i \in 1..Len(sbom_doc.relationships) :
                sbom_doc.relationships[i].relationship_type = "DESCENDANT_OF"
    THEN sbom_doc
    ELSE ConvertToDescendantOfRelationship(sbom_doc, grandparent)

\* a lookup that goes on without a DESCRIBES
GetContentSelfReferenceExits_Never(parent) == FALSE

\* get_content_self_reference: exit(1) when there is no DESCRIBES
GetContentSelfReferenceExits(parent) ==
    \A i \in 1..Len(parent.relationships) :
        parent.relationships[i].relationship_type # "DESCRIBES"

\* get_content_self_reference: the related id of the first DESCRIBES
GetContentSelfReference(parent) ==
    LET hits == {i \in 1..Len(parent.relationships) :
                    parent.relationships[i].relationship_type = "DESCRIBES"}
    IN IF hits = {} THEN None
       ELSE parent.relationships[CHOOSE i \in hits : \A j \in hits : i <= j]
                .related_spdx_element_id

\* [...][0] of adjust_parent_image_spdx_element_ids: IndexError when the
\* component document has no DESCENDANT_OF
ParentNameFromComponentSbomRaises(component) ==
    \A i \in 1..Len(component.relationships) :
        component.relationships[i].relationship_type # "DESCENDANT_OF"

\* parent_name_from_component_sbom: the related id of the first DESCENDANT_OF
ParentNameFromComponentSbom(component) ==
    LET hits == {i \in 1..Len(component.relationships) :
                    component.relationships[i].relationship_type = "DESCENDANT_OF"}
    IN IF hits = {} THEN None
       ELSE component.relationships[CHOOSE i \in hits : \A j \in hits : i <= j]
                .related_spdx_element_id

\* a loop body that renames only the relationship with the grandparent
AdjustSpdxElementId_OnlyLineage(relationship, parent_self_reference, parent_name, grandparent) ==
    IF /\ grandparent # None /\ grandparent # ""
       /\ relationship.related_spdx_element_id = grandparent
    THEN [relationship EXCEPT !.spdx_element_id = parent_name]
    ELSE relationship

\* the body of the loop of adjust_parent_image_spdx_element_ids
AdjustSpdxElementId(relationship, parent_self_reference, parent_name, grandparent) ==
    IF \/ /\ relationship.relationship_type = "CONTAINS"
          /\ relationship.spdx_element_id = parent_self_reference
       \/ /\ grandparent # None /\ grandparent # ""
          /\ relationship.related_spdx_element_id = grandparent
    THEN [relationship EXCEPT !.spdx_element_id = parent_name]
    ELSE relationship

\* adjust_parent_image_spdx_element_ids, when it returns
AdjustParentImageSpdxElementIds(parent, component, grandparent) ==
    [parent EXCEPT !.relationships =
        [i \in 1..Len(parent.relationships) |->
            AdjustSpdxElementId(parent.relationships[i], GetContentSelfReference(parent),
                                ParentNameFromComponentSbom(component), grandparent)]]

\* build_tool_ids of remove_parent_image_builder_records
BuildToolIds(parent) ==
    {parent.relationships[i].spdx_element_id :
        i \in {j \in 1..Len(parent.relationships) :
                  parent.relationships[j].relationship_type = "BUILD_TOOL_OF"}}

\* a removal that leaves the annotations of the removed packages behind
RemoveParentImageBuilderRecords_KeepAnnotations(parent) ==
    [packages |-> SelectSeq(parent.packages,
                            LAMBDA p : p.spdx_id \notin BuildToolIds(parent)),
     relationships |-> SelectSeq(parent.relationships,
                            LAMBDA r : r.relationship_type # "BUILD_TOOL_OF"),
     annotations |-> parent.annotations]

\* remove_parent_image_builder_records
RemoveParentImageBuilderRecords(parent) ==
    [packages |-> SelectSeq(parent.packages,
                            LAMBDA p : p.spdx_id \notin BuildToolIds(parent)),
     relationships |-> SelectSeq(parent.relationships,
                            LAMBDA r : r.relationship_type # "BUILD_TOOL_OF"),
     annotations |-> SelectSeq(parent.annotations,
                            LAMBDA a : a.spdx_id \notin BuildToolIds(parent))]

\* the exit status of the process after a call ended in state pc
ExitStatus(pc) == IF pc \in {"exit(1)", "IndexError"} THEN 1 ELSE 0

(***************************************************************************)
(* Bounds and input domains                                                *)
(***************************************************************************)
MaxSyft   == 2   \* components in the scanner list of merge_by_prefering_cachi2
MaxCachi2 == 2   \* components in the resolver list
MaxSboms  == 3   \* syft documents given to merge_n_syft_sboms
MaxComps  == 3   \* components in all syft documents together
MaxRels   == 3   \* relationships in each list given to merge_relationships
MaxPkgs   == 2   \* packages of an SPDX document besides its wrapper
MaxParentRels  == 3  \* relationships of the parent document
MaxAnnotations == 2  \* annotations of the parent document
MaxTools       == 2  \* tools in metadata.tools of a document

SeqsUpTo(S, n) == UNION {[1..k -> S] : k \in 0..n}

V1 == <<"v", "1">>
V2 == <<"v", "2">>

\* what syft reports
SyftEx    == Component(<<"e", "x">>, V1, Purl(Golang, <<>>, <<"e", "x">>, V1, <<>>, <<>>), "syft")
SyftLocal == Component(<<".", "/", "l">>, Devel, Purl(Golang, <<>>, <<"l">>, Devel, <<>>, <<>>), "syft")
SyftSub   == Component(<<"g">>, V1, Purl(Golang, <<>>, <<"g">>, V1, <<>>, <<"t">>), "syft")
SyftRetro == Component(<<"r">>, V2, Purl(Golang, <<>>, <<"r">>, V2, <<>>, V2), "syft")
SyftFoo   == Component(<<"F", "x">>, <<"1">>, Purl(Pypi, <<>>, <<"f", "x">>, <<"1">>, <<>>, <<>>), "syft")
SyftNpm   == Component(<<"a">>, <<"1">>, Purl(Npm, <<>>, <<"a">>, <<"1">>, <<>>, <<>>), "syft")
SyftBash  == Component(<<"b">>, <<"5">>, NoPurl, "syft")
\* an OS package that has the name of the resolver's Fx, and no purl
SyftFx    == Component(<<"F", "x">>, <<"1">>, NoPurl, "syft")

SyftUniverse == {SyftEx, SyftLocal, SyftSub, SyftRetro, SyftFoo, SyftNpm, SyftBash, SyftFx}

\* what cachi2 reports
Cachi2Ex    == Component(<<"e", "x">>, V1,
                   Purl(Golang, <<>>, <<"e", "x">>, V1, <<<<<<"t">>, <<"m">>>>>>, <<>>), "cachi2")
Cachi2Retro == Component(<<"r", "/", "v", "2">>, V2, Purl(Golang, <<"r">>, V2, V2, <<>>, <<>>), "cachi2")
Cachi2Foo   == Component(<<"F", "x">>, <<>>,
                   Purl(Pypi, <<>>, <<"f", "x">>, <<>>, <<<<VcsUrl, <<"g">>>>>>, <<>>), "cachi2")
Cachi2Npm   == Component(<<"n">>, <<"1">>, Purl(Npm, <<>>, <<"n">>, <<"1">>, <<>>, <<"a">>), "cachi2")
Cachi2Bash  == Component(<<"b">>, <<"5">>, NoPurl, "cachi2")

Cachi2Universe == {Cachi2Ex, Cachi2Retro, Cachi2Foo, Cachi2Npm, Cachi2Bash}

\* components of the syft documents given to merge_n_syft_sboms: One and Two
\* differ in their properties only, Qual has the purl of One with a qualifier
One  == Component(<<"a">>, <<"1">>, Purl(Npm, <<>>, <<"a">>, <<"1">>, <<>>, <<>>), "one")
Two  == Component(<<"a">>, <<"1">>, Purl(Npm, <<>>, <<"a">>, <<"1">>, <<>>, <<>>), "two")
Qual == Component(<<"a">>, <<"1">>,
            Purl(Npm, <<>>, <<"a">>, <<"1">>, <<<<<<"t">>, <<"m">>>>>>, <<>>), "qual")
Bare == Component(<<"a">>, <<"1">>, NoPurl, "bare")

SbomUniverse == {One, Two, Qual, Bare}

Syft14 == Tool(<<"s">>, <<"4">>, <<"a">>, <<>>, <<>>)
Syft15 == Tool(<<"s">>, <<"5">>, <<>>, <<"a">>, Application)
\* the same tool as a 1.5 component that carries a purl
Syft15Purl == [Syft15 EXCEPT !.purl = Purl(Golang, <<>>, <<"s">>, <<"5">>, <<>>, <<>>)]

ToolsChoices == {[shape |-> "list", items |-> <<Syft14>>],
                 [shape |-> "dict", items |-> <<Syft15>>],
                 [shape |-> "invalid", items |-> <<>>]}

NoTools == [shape |-> "list", items |-> <<>>]

\* 1.4 tools: syft 4 as two vendors name it, and cachi2's entry without version
Syft14Other == Tool(<<"s">>, <<"4">>, <<"o">>, <<>>, <<>>)
Cachi2Tool  == Tool(<<"c">>, <<>>, <<"r">>, <<>>, <<>>)

FlatTools == {Syft14, Syft14Other, Cachi2Tool}

\* 1.5 tools: syft 5 without and with a purl, and syft 4 as a component
Syft14Component == Tool(<<"s">>, <<"4">>, <<>>, <<"a">>, Application)

ComponentTools == {Syft15, Syft15Purl, Syft14Component}

\* the values of metadata.tools given to _merge_tools_metadata
ToolsDocs ==
    {[shape |-> "list", items |-> items] : items \in SeqsUpTo(FlatTools, MaxTools)}
    \cup {[shape |-> "dict", items |-> items] : items \in SeqsUpTo(ComponentTools, MaxTools)}
    \cup {[shape |-> "invalid", items |-> <<>>]}

(***************************************************************************)
(* Idle values of the variables a specification does not use               *)
(***************************************************************************)
PreferIdle ==
    /\ syft_components = <<>> /\ cachi2_components = <<>>
    /\ merged = <<>> /\ prefer_pc = "idle"

SyftIdle == sboms = <<>> /\ merged_sbom = Sbom(<<>>, NoTools) /\ syft_pc = "idle"

SpdxIdle ==
    /\ syft_sbom = SpdxDoc(<<>>, <<>>, <<>>) /\ cachi2_sbom = SpdxDoc(<<>>, <<>>, <<>>)
    /\ spdx_out = SpdxDoc(<<>>, <<>>, <<>>) /\ spdx_pc = "idle"
    /\ spdx_counterpart = SpdxDoc(<<>>, <<>>, <<>>) /\ spdx_side = "incoming"
    /\ spdx_again = SpdxDoc(<<>>, <<>>, <<>>)

RelIdle ==
    /\ relationships1 = <<>> /\ relationships2 = <<>> /\ packages = <<>>
    /\ relationships = <<>> /\ rel_pc = "idle"

ToolsIdle ==
    /\ sbom_a_tools = NoTools /\ sbom_b_tools = NoTools /\ merged_tools = NoTools
    /\ tools_pc = "idle"

BaseIdle ==
    /\ base_images_digests = <<>> /\ is_last_from_scratch = FALSE
    /\ base_sbom_in = <<>> /\ base_components = <<>> /\ base_sbom = <<>>
    /\ base_doc = Document(<<>>, <<>>, <<>>)
    /\ base_grandparent = None /\ base_pc = "idle"

DockerIdle ==
    /\ parsed_dockerfile = <<>> /\ target_stage = <<>> /\ base_images = <<>>
    /\ parent_image = <<>> /\ docker_pc = "idle"

DownloadIdle ==
    /\ dl_pullspec = None /\ dl_arch = None
    /\ oras_stdout = [kind |-> "not run"] /\ cosign_command = <<>>
    /\ cosign_stdout = [kind |-> "not run"]
    /\ dl_result = None /\ dl_pc = "idle"

ParentIdle ==
    /\ parent_sbom_doc = Document(<<>>, <<>>, <<>>)
    /\ parent_orig = Document(<<>>, <<>>, <<>>)
    /\ grandparent_spdx_id = None /\ parent_pc = "idle"
    /\ parent_prev = Document(<<>>, <<>>, <<>>)
    /\ component_sbom_doc = Document(<<>>, <<>>, <<>>)

(***************************************************************************)
(* merge_by_prefering_cachi2 on a scanner list and a resolver list         *)
(***************************************************************************)
InitPrefer ==
    /\ syft_components \in SeqsUpTo(SyftUniverse, MaxSyft)
    /\ cachi2_components \in SeqsUpTo(Cachi2Universe, MaxCachi2)
    /\ merged = <<>>
    /\ prefer_pc = "input"
    /\ SyftIdle /\ SpdxIdle /\ RelIdle /\ ParentIdle /\ ToolsIdle
    /\ BaseIdle /\ DockerIdle /\ DownloadIdle

CallMergeByPreferingCachi2 ==
    /\ prefer_pc = "input"
    /\ IF MergeByPreferingCachi2Raises(syft_components, cachi2_components)
       THEN merged' = <<>> /\ prefer_pc' = "raised"
       ELSE /\ merged' = MergeByPreferingCachi2(syft_components, cachi2_components)
            /\ prefer_pc' = "done"
    /\ UNCHANGED <<syft_components, cachi2_components>>
    /\ UNCHANGED <<syftVars, spdxVars, relVars, parentVars, toolsVars,
                 baseVars, dockerVars, downloadVars>>

NextPrefer == CallMergeByPreferingCachi2

SpecPrefer == InitPrefer /\ [][NextPrefer]_vars

(***************************************************************************)
(* merge_n_syft_sboms: the documents are loaded, then reduced              *)
(***************************************************************************)
RECURSIVE TotalComponents(_)
TotalComponents(docs) ==
    IF docs = <<>> THEN 0 ELSE Len(Head(docs).components) + TotalComponents(Tail(docs))

InitSyft ==
    /\ sboms = <<>>
    /\ merged_sbom = Sbom(<<>>, NoTools)
    /\ syft_pc = "load"
    /\ PreferIdle /\ SpdxIdle /\ RelIdle /\ ParentIdle /\ ToolsIdle
    /\ BaseIdle /\ DockerIdle /\ DownloadIdle

\* sboms.append(json.load(f))
LoadSbom ==
    /\ syft_pc = "load"
    /\ Len(sboms) < MaxSboms
    /\ \E components \in SeqsUpTo(SbomUniverse, MaxComps - TotalComponents(sboms)),
          tools \in ToolsChoices :
          sboms' = Append(sboms, Sbom(components, tools))
    /\ UNCHANGED <<merged_sbom, syft_pc>>
    /\ UNCHANGED <<preferVars, spdxVars, relVars, parentVars, toolsVars,
                 baseVars, dockerVars, downloadVars>>

\* merged_sbom = functools.reduce(merge, sboms)
CallMergeNSyftSboms ==
    /\ syft_pc = "load"
    /\ LET result == MergeNSyftSboms(sboms) IN
       IF result.raised
       THEN merged_sbom' = Sbom(<<>>, NoTools) /\ syft_pc' = "raised"
       ELSE merged_sbom' = result.sbom /\ syft_pc' = "done"
    /\ UNCHANGED sboms
    /\ UNCHANGED <<preferVars, spdxVars, relVars, parentVars, toolsVars,
                 baseVars, dockerVars, downloadVars>>

NextSyft == LoadSbom \/ CallMergeNSyftSboms

SpecSyft == InitSyft /\ [][NextSyft]_vars

(***************************************************************************)
(* _merge_tools_metadata of merge_sboms.py on the tools of two documents   *)
(***************************************************************************)
InitTools ==
    /\ sbom_a_tools \in ToolsDocs
    /\ sbom_b_tools \in ToolsDocs
    /\ merged_tools = sbom_a_tools
    /\ tools_pc = "input"
    /\ PreferIdle /\ SyftIdle /\ SpdxIdle /\ RelIdle /\ ParentIdle
    /\ BaseIdle /\ DockerIdle /\ DownloadIdle

\* _merge_tools_metadata(sbom_a, sbom_b): sbom_a["metadata"]["tools"] is
\* assigned in the two branches that do not raise
CallMergeToolsMetadata ==
    /\ tools_pc = "input"
    /\ IF MergeToolsMetadataRaises(sbom_a_tools, sbom_b_tools)
       THEN merged_tools' = sbom_a_tools /\ tools_pc' = "raised"
       ELSE /\ merged_tools' = MergeToolsMetadata(sbom_a_tools, sbom_b_tools)
            /\ tools_pc' = "done"
    /\ UNCHANGED <<sbom_a_tools, sbom_b_tools>>
    /\ UNCHANGED <<preferVars, syftVars, spdxVars, relVars, parentVars,
                 baseVars, dockerVars, downloadVars>>

NextTools == CallMergeToolsMetadata

SpecTools == InitTools /\ [][NextTools]_vars

(***************************************************************************)
(* merge_relationships on relationship lists and a package list            *)
(***************************************************************************)
\* relationships of a base document: its root DOC, its wrapper M1, packages A, B
Rel1Universe ==
    {Relationship("DOC", "DESCRIBES", "M1"),
     Relationship("M1", "CONTAINS", "A"),
     Relationship("A", "DEPENDS_ON", "M1"),
     Relationship("A", "OTHER", "DOC"),
     Relationship("DOC", "DESCRIBES", "A")}

\* relationships of an incoming document: its root DOC2, its wrapper M2, package C
Rel2Universe ==
    {Relationship("DOC2", "DESCRIBES", "M2"),
     Relationship("M2", "CONTAINS", "C"),
     Relationship("DOC2", "DESCRIBES", "C"),
     Relationship("C", "DEPENDS_ON", "DOC2")}

BarePackage(id) == Package(id, <<>>, <<>>, <<>>, <<>>)

\* the merged packages: any of the two wrappers and the packages A and C
PackageLists ==
    {SelectSeq(<<BarePackage("M1"), BarePackage("A"), BarePackage("M2"), BarePackage("C")>>,
               LAMBDA package : package.SPDXID \in ids) :
        ids \in SUBSET {"M1", "A", "M2", "C"}}

InitRel ==
    /\ relationships1 \in SeqsUpTo(Rel1Universe, MaxRels)
    /\ relationships2 \in SeqsUpTo(Rel2Universe, MaxRels)
    /\ packages \in PackageLists
    /\ relationships = <<>>
    /\ rel_pc = "input"
    /\ PreferIdle /\ SyftIdle /\ SpdxIdle /\ ParentIdle /\ ToolsIdle
    /\ BaseIdle /\ DockerIdle /\ DownloadIdle

CallMergeRelationships ==
    /\ rel_pc = "input"
    /\ IF MergeRelationshipsRaises(relationships1, relationships2)
       THEN relationships' = <<>> /\ rel_pc' = "raised"
       ELSE /\ relationships' = MergeRelationships(relationships1, relationships2, packages)
            /\ rel_pc' = "done"
    /\ UNCHANGED <<relationships1, relationships2, packages>>
    /\ UNCHANGED <<preferVars, syftVars, spdxVars, parentVars, toolsVars,
                 baseVars, dockerVars, downloadVars>>

NextRel == CallMergeRelationships

SpecRel == InitRel /\ [][NextRel]_vars

(***************************************************************************)
(* merge_sboms(format="spdx") on a syft and a cachi2 document.  A document *)
(* has a root that DESCRIBES a wrapper, the wrapper CONTAINS every package,*)
(* and there may be one more relationship.                                 *)
(***************************************************************************)
NpmPurl(name, qualifiers) == Purl(Npm, <<>>, name, <<"1">>, qualifiers, <<>>)

PurlRef(purl) == Ref("PACKAGE-MANAGER", "purl", purl, <<>>)

AnnSyft   == Annotation("syft", "found", "d1", "OTHER")
AnnCachi2 == Annotation("cachi2", "resolved", "d2", "OTHER")

AnnotationUniverse == {AnnSyft, AnnCachi2}

\* the orders in which a Python set may enumerate the annotations
AnnotationRanks ==
    {rank \in [AnnotationUniverse -> 1..Cardinality(AnnotationUniverse)] :
        \A x, y \in AnnotationUniverse : rank[x] = rank[y] => x = y}

\* syft: A has one purl, AB the same purl and another one, L is a local golang
\* replacement, X is reported by syft alone
SyftWrapper == BarePackage("M1")
SyftA  == Package("A", <<"a">>, <<"1">>, <<PurlRef(NpmPurl(<<"a">>, <<>>))>>, <<AnnSyft>>)
SyftAB == Package("AB", <<"a">>, <<"1">>,
              <<PurlRef(NpmPurl(<<"a">>, <<>>)), PurlRef(NpmPurl(<<"b">>, <<>>))>>, <<AnnSyft>>)
SyftL  == Package("L", <<".", "/", "l">>, Devel,
              <<PurlRef(Purl(Golang, <<>>, <<"l">>, Devel, <<>>, <<>>))>>, <<>>)
SyftX  == Package("X", <<"x">>, <<"1">>, <<PurlRef(NpmPurl(<<"x">>, <<>>))>>, <<>>)
\* the package a once more, found under a subpath by two scans of syft: its two
\* purls differ in a qualifier only
SyftA2 == Package("A2", <<"a">>, <<"1">>,
              <<PurlRef(Purl(Npm, <<>>, <<"a">>, <<"1">>, <<<<<<"t">>, <<"m">>>>>>, <<"s">>)),
                PurlRef(Purl(Npm, <<>>, <<"a">>, <<"1">>, <<<<<<"t">>, <<"n">>>>>>, <<"s">>))>>,
              <<>>)

SyftPackageUniverse == {SyftA, SyftAB, SyftL, SyftX, SyftA2}

\* cachi2: CA is the package syft reports as A, with a qualifier; CB is its own
Cachi2Wrapper == BarePackage("M2")
Cachi2A == Package("CA", <<"a">>, <<"1">>,
               <<PurlRef(NpmPurl(<<"a">>, <<<<<<"t">>, <<"m">>>>>>))>>, <<AnnCachi2>>)
Cachi2B == Package("CB", <<"c">>, <<"1">>, <<PurlRef(NpmPurl(<<"c">>, <<>>))>>, <<>>)

Cachi2PackageUniverse == {Cachi2A, Cachi2B}

\* relationships besides DESCRIBES and CONTAINS: between two packages, and
\* from a package to a file
SyftExtras   == {<<>>, <<Relationship("A", "DEPENDS_ON", "X")>>,
                 <<Relationship("X", "OTHER", "A")>>}
Cachi2Extras == {<<>>, <<Relationship("CA", "CONTAINS", "F")>>}

\* a document: root DESCRIBES wrapper, wrapper CONTAINS each package, extras
StructuredDoc(root, wrapper, listed, pkgs, extras, creators) ==
    SpdxDoc((IF listed THEN <<wrapper>> ELSE <<>>) \o pkgs,
            <<Relationship(root, "DESCRIBES", wrapper.SPDXID)>>
            \o [i \in 1..Len(pkgs) |-> Relationship(wrapper.SPDXID, "CONTAINS", pkgs[i].SPDXID)]
            \o extras,
            creators)

SyftDocs ==
    {StructuredDoc("DOC", SyftWrapper, listed, pkgs, extras, <<"Tool: syft">>) :
        listed \in BOOLEAN, pkgs \in SeqsUpTo(SyftPackageUniverse, MaxPkgs),
        extras \in SyftExtras}

Cachi2Docs ==
    {StructuredDoc(root, Cachi2Wrapper, listed, pkgs, extras, <<"Tool: cachi2">>) :
        root \in {"DOC", "DOC2"}, listed \in BOOLEAN,
        pkgs \in SeqsUpTo(Cachi2PackageUniverse, MaxPkgs), extras \in Cachi2Extras}

\* empty_spdx_sbom: a root package that the document describes, nothing else
EmptySpdxSbom ==
    SpdxDoc(<<BarePackage("SPDXRef-DocumentRoot-Unknown")>>,
            <<Relationship("SPDXRef-DOCUMENT", "DESCRIBES", "SPDXRef-DocumentRoot-Unknown")>>,
            <<"Tool: Konflux">>)

\* documents that contribute no package of their own: the empty skeleton, a
\* document without packages and relationships, and a document whose only
\* relationship describes an element that is not a package
NoOpCounterparts ==
    {EmptySpdxSbom,
     SpdxDoc(<<>>, <<>>, <<"Tool: cachi2">>),
     SpdxDoc(<<>>, <<Relationship("DOC2", "DESCRIBES", "M2")>>, <<"Tool: cachi2">>)}

InitSpdx ==
    /\ syft_sbom \in SyftDocs
    /\ cachi2_sbom \in Cachi2Docs
    /\ spdx_out = SpdxDoc(<<>>, <<>>, <<>>)
    /\ spdx_pc = "input"
    /\ spdx_counterpart = SpdxDoc(<<>>, <<>>, <<>>) /\ spdx_side = "incoming"
    /\ spdx_again = SpdxDoc(<<>>, <<>>, <<>>)
    /\ PreferIdle /\ SyftIdle /\ RelIdle /\ ParentIdle /\ ToolsIdle
    /\ BaseIdle /\ DockerIdle /\ DownloadIdle

CallMergeSboms ==
    /\ spdx_pc = "input"
    /\ IF MergeSbomsRaises(syft_sbom, cachi2_sbom)
       THEN spdx_out' = SpdxDoc(<<>>, <<>>, <<>>) /\ spdx_pc' = "raised"
       ELSE /\ \E rank \in AnnotationRanks :
                  spdx_out' = MergeSboms(syft_sbom, cachi2_sbom, rank)
            /\ spdx_pc' = "done"
    /\ UNCHANGED <<syft_sbom, cachi2_sbom, spdx_counterpart, spdx_side, spdx_again>>
    /\ UNCHANGED <<preferVars, syftVars, relVars, parentVars, toolsVars,
                 baseVars, dockerVars, downloadVars>>

\* merge_sboms run once more, on the document it produced and a document
\* that contributes no package of its own
CallMergeSbomsAgain ==
    /\ spdx_pc = "done"
    /\ \E counterpart \in NoOpCounterparts, side \in {"incoming", "base"} :
          LET syft == IF side = "incoming" THEN spdx_out ELSE counterpart
              cachi2 == IF side = "incoming" THEN counterpart ELSE spdx_out
          IN /\ spdx_counterpart' = counterpart
             /\ spdx_side' = side
             /\ IF MergeSbomsRaises(syft, cachi2)
                THEN spdx_again' = SpdxDoc(<<>>, <<>>, <<>>) /\ spdx_pc' = "raised again"
                ELSE /\ \E rank \in AnnotationRanks :
                           spdx_again' = MergeSboms(syft, cachi2, rank)
                     /\ spdx_pc' = "again"
    /\ UNCHANGED <<syft_sbom, cachi2_sbom, spdx_out>>
    /\ UNCHANGED <<preferVars, syftVars, relVars, parentVars, toolsVars,
                 baseVars, dockerVars, downloadVars>>

NextSpdx ==
    \/ CallMergeSboms
    \/ CallMergeSbomsAgain

SpecSpdx == InitSpdx /\ [][NextSpdx]_vars

(***************************************************************************)
(* The lineage rewrite of main.py on a parsed parent document              *)
(***************************************************************************)
Image == "SPDXRef-image"
Grandparent == "SPDXRef-grandparent"
Builder == "SPDXRef-builder"
Pkg == "SPDXRef-Package-pkg"

ParentRelUniverse ==
    {Rel(Grandparent, "BUILD_TOOL_OF", Image),
     Rel(Grandparent, "OTHER", Image),
     Rel(Grandparent, "BUILD_TOOL_OF", Pkg),
     Rel(Builder, "BUILD_TOOL_OF", Image),
     Rel(Image, "DESCENDANT_OF", Grandparent),
     Rel("SPDXRef-DOCUMENT", "DESCRIBES", Image),
     Rel(Image, "CONTAINS", Pkg),
     Rel(Grandparent, "CONTAINS", Pkg)}

ParentAnnotationUniverse ==
    {DocAnnotation(Grandparent, IsBaseImageComment),
     DocAnnotation(Pkg, IsBaseImageComment),
     DocAnnotation(Builder, "{\"name\":\"konflux:container:is_builder_image:for_stage\",\"value\":\"0\"}")}

ParentPackages == <<[spdx_id |-> Image], [spdx_id |-> Grandparent],
                    [spdx_id |-> Builder], [spdx_id |-> Pkg]>>

ParentDocs ==
    {Document(ParentPackages, rels, annotations) :
        rels \in SeqsUpTo(ParentRelUniverse, MaxParentRels),
        annotations \in SeqsUpTo(ParentAnnotationUniverse, MaxAnnotations)}

ParentName == "SPDXRef-image-registry.access.redhat.com/parent-of-component:latest"

\* the component document: with the DESCENDANT_OF that names its parent,
\* with a second one, with another relationship first, and without any
ComponentDocs ==
    {Document(<<>>, rels, <<>>) :
        rels \in {<<Rel(Image, "DESCENDANT_OF", ParentName)>>,
                  <<Rel(Image, "DESCENDANT_OF", ParentName),
                    Rel(Image, "DESCENDANT_OF", Grandparent)>>,
                  <<Rel(Image, "CONTAINS", Pkg), Rel(Image, "DESCENDANT_OF", ParentName)>>,
                  <<Rel(Image, "CONTAINS", Pkg)>>}}

InitParent ==
    /\ parent_sbom_doc \in ParentDocs
    /\ parent_orig = parent_sbom_doc
    /\ grandparent_spdx_id = None
    /\ parent_pc = "parsed"
    /\ parent_prev = parent_sbom_doc
    /\ component_sbom_doc = Document(<<>>, <<>>, <<>>)
    /\ PreferIdle /\ SyftIdle /\ SpdxIdle /\ RelIdle /\ ToolsIdle
    /\ BaseIdle /\ DockerIdle /\ DownloadIdle

\* grandparent_spdx_id = get_used_parent_image_from_legacy_sbom(parent_sbom_doc)
CallGetUsedParentImageFromLegacySbom ==
    /\ parent_pc = "parsed"
    /\ grandparent_spdx_id' = GetUsedParentImageFromLegacySbom(parent_sbom_doc)
    /\ parent_pc' = "identified"
    /\ UNCHANGED <<parent_sbom_doc, parent_orig, parent_prev, component_sbom_doc>>
    /\ UNCHANGED <<preferVars, syftVars, spdxVars, relVars, toolsVars,
                 baseVars, dockerVars, downloadVars>>

\* parent_sbom_doc = adjust_parent_image_relationship_in_legacy_sbom(...)
CallAdjustParentImageRelationshipInLegacySbom ==
    /\ parent_pc = "identified"
    /\ parent_sbom_doc' =
          AdjustParentImageRelationshipInLegacySbom(parent_sbom_doc, grandparent_spdx_id)
    /\ parent_pc' = "adjusted"
    /\ parent_prev' = parent_sbom_doc
    /\ UNCHANGED <<parent_orig, grandparent_spdx_id, component_sbom_doc>>
    /\ UNCHANGED <<preferVars, syftVars, spdxVars, relVars, toolsVars,
                 baseVars, dockerVars, downloadVars>>

\* parent_sbom_doc = adjust_parent_image_spdx_element_ids(parent_sbom_doc,
\*                       component_sbom_doc, grandparent_spdx_id)
CallAdjustParentImageSpdxElementIds ==
    /\ parent_pc = "adjusted"
    /\ \E component \in ComponentDocs :
          /\ component_sbom_doc' = component
          /\ IF ParentNameFromComponentSbomRaises(component)
             THEN parent_sbom_doc' = parent_sbom_doc /\ parent_pc' = "IndexError"
             ELSE IF GetContentSelfReferenceExits(parent_sbom_doc)
             THEN parent_sbom_doc' = parent_sbom_doc /\ parent_pc' = "exit(1)"
             ELSE /\ parent_sbom_doc' =
                        AdjustParentImageSpdxElementIds(parent_sbom_doc, component,
                                                        grandparent_spdx_id)
                  /\ parent_pc' = "renamed"
    /\ parent_prev' = parent_sbom_doc
    /\ UNCHANGED <<parent_orig, grandparent_spdx_id>>
    /\ UNCHANGED <<preferVars, syftVars, spdxVars, relVars, toolsVars,
                 baseVars, dockerVars, downloadVars>>

\* parent_sbom_doc = remove_parent_image_builder_records(parent_sbom_doc),
\* once the DESCENDANT_OF relationship of the parent has been updated
CallRemoveParentImageBuilderRecords ==
    /\ parent_pc \in {"adjusted", "renamed"}
    /\ parent_sbom_doc' = RemoveParentImageBuilderRecords(parent_sbom_doc)
    /\ parent_pc' = "cleaned"
    /\ parent_prev' = parent_sbom_doc
    /\ UNCHANGED <<parent_orig, grandparent_spdx_id, component_sbom_doc>>
    /\ UNCHANGED <<preferVars, syftVars, spdxVars, relVars, toolsVars,
                 baseVars, dockerVars, downloadVars>>

NextParent ==
    \/ CallGetUsedParentImageFromLegacySbom
    \/ CallAdjustParentImageRelationshipInLegacySbom
    \/ CallAdjustParentImageSpdxElementIds
    \/ CallRemoveParentImageBuilderRecords

SpecParent == InitParent /\ [][NextParent]_vars

(***************************************************************************)
(* contextual-sbom/src/parsed_dockerfile.py.  A stage is a record of the   *)
(* keys the code reads: From (the keys of the dict and the value under     *)
(* "Scratch"), BaseName and As.                                            *)
(***************************************************************************)
\* None where the code expects a str: a sequence no str is equal to
NoName == <<None>>

Stage(from, baseName, as) == [From |-> from, BaseName |-> baseName, As |-> as]

FromImage   == [keys |-> {"Image"}, Scratch |-> FALSE]
FromStage   == [keys |-> {"Stage"}, Scratch |-> FALSE]
FromScratch == [keys |-> {"Scratch"}, Scratch |-> TRUE]

OciArchivePrefix == <<"o", "c", "i", "-", "a", "r", "c", "h", "i", "v", "e", ":">>
ScratchName == <<"s", "c", "r", "a", "t", "c", "h">>

\* bool(x) of a str or None
Truthy(s) == s # <<>> /\ s # NoName

\* a loop body that keeps the oci-archive stages
GetBaseImagesOfStage_KeepOciArchive(stage) ==
    IF "Stage" \in stage.From.keys THEN <<>>
    ELSE IF stage.From.Scratch THEN <<NoName>>
    ELSE IF Truthy(stage.BaseName) THEN <<stage.BaseName>>
    ELSE <<>>

\* the body of the loop of get_base_images: what one stage appends
GetBaseImagesOfStage(stage) ==
    IF "Stage" \in stage.From.keys THEN <<>>
    ELSE IF stage.From.Scratch THEN <<NoName>>
    ELSE IF /\ Truthy(stage.BaseName)
            /\ ~StartsWith(stage.BaseName, OciArchivePrefix)
    THEN <<stage.BaseName>>
    ELSE <<>>

\* get_base_images
GetBaseImages(stages) ==
    Flatten([i \in 1..Len(stages) |-> GetBaseImagesOfStage(stages[i])])

\* reversed(...)
Reversed(s) == [i \in 1..Len(s) |-> s[Len(s) + 1 - i]]

\* the loop of _get_base_image_for_target over the stages in the order given
RECURSIVE ResolveLoop(_, _)
ResolveLoop(todo, last_ref) ==
    IF todo = <<>> THEN last_ref
    ELSE IF Head(todo).As = last_ref
    THEN ResolveLoop(Tail(todo), Head(todo).BaseName)
    ELSE ResolveLoop(Tail(todo), last_ref)

\* a lookup that walks the stages from the first to the last
GetBaseImageForTarget_Forward(stages, target) ==
    LET last_ref == ResolveLoop(stages, target)
    IN IF Lower(last_ref) = ScratchName THEN NoName ELSE last_ref

\* _get_base_image_for_target
GetBaseImageForTarget(stages, target) ==
    LET last_ref == ResolveLoop(Reversed(stages), target)
    IN IF Lower(last_ref) = ScratchName THEN NoName ELSE last_ref

\* get_parent_image_pullspec raises ValueError
GetParentImagePullspecRaises(stages, target, images) ==
    (IF images # <<>> THEN images ELSE GetBaseImages(stages)) = <<>>

\* get_parent_image_pullspec, when it returns
GetParentImagePullspec(stages, target, images) ==
    LET listed == IF images # <<>> THEN images ELSE GetBaseImages(stages)
    IN IF ~Truthy(target) THEN listed[Len(listed)]
       ELSE GetBaseImageForTarget(stages, target)

MaxStages == 3   \* stages of the Dockerfile

\* the alias a stage can declare, by its position
StageAlias(i) == <<<<"a">>, <<"b">>, <<"c">>, <<"d">>, <<"e">>>>[i]

ImageU == <<"u">>
ImageScratchUpper == <<"S", "c", "r", "a", "t", "c", "h">>
OciArchiveX == OciArchivePrefix \o <<"x">>

\* what dockerfile-json can report for a stage at position i that is not
\* built from a previous stage: an image (possibly named like a later alias,
\* empty, or an oci-archive) or scratch
StageUniverse(i) ==
    {Stage(FromImage, b, as) :
        b \in {ImageU, ImageScratchUpper, OciArchiveX, <<>>, StageAlias(i + 1)},
        as \in {NoName, StageAlias(i)}}
    \cup {Stage(FromScratch, ScratchName, as) : as \in {NoName, StageAlias(i)}}

\* the Dockerfiles of n stages in which every reference to a stage names an
\* alias that an earlier stage declared
RECURSIVE DockerfilesOfLen(_)
DockerfilesOfLen(n) ==
    IF n = 0 THEN {<<>>}
    ELSE {Append(stages, stage) :
            stages \in DockerfilesOfLen(n - 1),
            stage \in StageUniverse(n)}
         \cup {Append(stages, Stage(FromStage, stages[j].As, as)) :
                 stages \in {d \in DockerfilesOfLen(n - 1) :
                                \E k \in 1..Len(d) : d[k].As # NoName},
                 j \in 1..(n - 1), as \in {NoName, StageAlias(n)}}

\* the Dockerfiles of up to n stages
Dockerfiles(n) == {stages \in UNION {DockerfilesOfLen(k) : k \in 0..n} :
                     \A i \in 1..Len(stages) : stages[i].BaseName # NoName}

TargetStages == {NoName, <<>>, ImageU, ImageScratchUpper}
                   \cup {StageAlias(i) : i \in 1..MaxStages}

InitDocker ==
    /\ parsed_dockerfile \in Dockerfiles(MaxStages)
    /\ target_stage \in TargetStages
    /\ base_images = <<>>
    /\ parent_image = <<>>
    /\ docker_pc = "loaded"
    /\ PreferIdle /\ SyftIdle /\ SpdxIdle /\ RelIdle /\ ParentIdle /\ ToolsIdle
    /\ BaseIdle /\ DownloadIdle

\* base_images = get_base_images(parsed_dockerfile)
CallGetBaseImages ==
    /\ docker_pc = "loaded"
    /\ base_images' = GetBaseImages(parsed_dockerfile)
    /\ docker_pc' = "listed"
    /\ UNCHANGED <<parsed_dockerfile, target_stage, parent_image>>
    /\ UNCHANGED <<preferVars, syftVars, spdxVars, relVars, parentVars, toolsVars,
                   baseVars, downloadVars>>

\* parent_image = get_parent_image_pullspec(parsed_dockerfile, target_stage,
\*                                          base_images)
CallGetParentImagePullspec ==
    /\ docker_pc = "listed"
    /\ IF GetParentImagePullspecRaises(parsed_dockerfile, target_stage, base_images)
       THEN parent_image' = parent_image /\ docker_pc' = "ValueError"
       ELSE /\ parent_image' = GetParentImagePullspec(parsed_dockerfile, target_stage,
                                                      base_images)
            /\ docker_pc' = "resolved"
    /\ UNCHANGED <<parsed_dockerfile, target_stage, base_images>>
    /\ UNCHANGED <<preferVars, syftVars, spdxVars, relVars, parentVars, toolsVars,
                   baseVars, downloadVars>>

NextDocker ==
    \/ CallGetBaseImages
    \/ CallGetParentImagePullspec

SpecDocker == InitDocker /\ [][NextDocker]_vars

(***************************************************************************)
(* parent_content.py, download_parent_image_sbom.  The bytes a subprocess  *)
(* wrote to stdout are a record of what json.loads makes of them: kind is  *)
(* "empty" (b""), "not utf-8" (bytes that do not decode), "not json" (text *)
(* that is no JSON document) or "json", and value is the parsed value.     *)
(***************************************************************************)
Stdout(kind, value) == [kind |-> kind, value |-> value]

\* a JSON value: its Python type, the list under "manifests" (has_manifests
\* tells whether the key is there) and a name for the rest of its content
JsonValue(type, has_manifests, manifests, content) ==
    [type |-> type, has_manifests |-> has_manifests, manifests |-> manifests,
     content |-> content]

\* no value: the bytes were not parsed
NoJson == JsonValue("NoneType", FALSE, <<>>, "")

\* subprocess.run has not been called
NotRun == Stdout("not run", NoJson)

\* json.loads(bytes): the exception it raises, None when it returns
JsonLoadsRaises(stdout) ==
    CASE stdout.kind = "not utf-8" -> "UnicodeDecodeError"
      [] stdout.kind \in {"not json", "empty"} -> "JSONDecodeError"
      [] OTHER -> None

\* the cosign command line: --platform goes before the pullspec when the
\* manifest has a non-empty "manifests"
CosignCommand(pullspec, arch, inspected_image) ==
    IF inspected_image.has_manifests /\ inspected_image.manifests # <<>>
    THEN <<"/usr/bin/cosign", "download", "sbom", "--platform=" \o arch, pullspec>>
    ELSE <<"/usr/bin/cosign", "download", "sbom", pullspec>>

\* download_parent_image_sbom up to the second subprocess.run: where the
\* call stands once oras has written stdout
AfterManifestFetch(pullspec, stdout) ==
    IF stdout.kind = "empty" THEN "exit(0)"
    ELSE IF JsonLoadsRaises(stdout) = "JSONDecodeError" THEN "exit(0)"
    ELSE IF JsonLoadsRaises(stdout) # None THEN JsonLoadsRaises(stdout)
    ELSE IF stdout.value.type # "dict" THEN "AttributeError"
    ELSE "fetched"

\* download_parent_image_sbom after the second subprocess.run
AfterSbomDownload(stdout) ==
    IF stdout.kind = "empty" THEN "exit(0)"
    ELSE IF JsonLoadsRaises(stdout) = "JSONDecodeError" THEN "exit(0)"
    ELSE IF JsonLoadsRaises(stdout) # None THEN JsonLoadsRaises(stdout)
    ELSE "returned"

\* the exit status of the process when the call ended in state pc: the
\* argument of exit, 1 for an exception nothing catches
DownloadExitStatus(pc) == IF pc = "exit(0)" THEN 0 ELSE 1

Pullspecs == {None, "", "quay.io/p@sha256:1", "quay.io/q@sha256:2", "quay.io/r:latest"}
Archs == {"amd64", "arm64"}

OrasOutputs ==
    {Stdout("empty", NoJson), Stdout("not utf-8", NoJson), Stdout("not json", NoJson),
     Stdout("json", JsonValue("dict", TRUE, <<"amd64", "arm64">>, "image index")),
     Stdout("json", JsonValue("dict", TRUE, <<>>, "image index")),
     Stdout("json", JsonValue("dict", FALSE, <<>>, "image manifest")),
     Stdout("json", JsonValue("list", FALSE, <<>>, "array"))}

CosignOutputs ==
    {Stdout("empty", NoJson), Stdout("not utf-8", NoJson), Stdout("not json", NoJson),
     Stdout("json", JsonValue("dict", FALSE, <<>>, "spdx document")),
     Stdout("json", JsonValue("dict", FALSE, <<>>, "cyclonedx document"))}

InitDownload ==
    /\ dl_pullspec \in Pullspecs
    /\ dl_arch \in Archs
    /\ oras_stdout = NotRun
    /\ cosign_command = <<>>
    /\ cosign_stdout = NotRun
    /\ dl_result = NoJson
    /\ dl_pc = "called"
    /\ PreferIdle /\ SyftIdle /\ SpdxIdle /\ RelIdle /\ ParentIdle /\ ToolsIdle
    /\ BaseIdle /\ DockerIdle

\* download_parent_image_sbom(parent_image, arch) up to the point where it
\* has looked at the manifest
FetchManifest ==
    /\ dl_pc = "called"
    /\ IF dl_pullspec = None \/ dl_pullspec = ""
       THEN oras_stdout' = oras_stdout /\ dl_pc' = "exit(0)"
       ELSE \E stdout \in OrasOutputs :
               /\ oras_stdout' = stdout
               /\ dl_pc' = AfterManifestFetch(dl_pullspec, stdout)
    /\ UNCHANGED <<dl_pullspec, dl_arch, cosign_command, cosign_stdout, dl_result>>
    /\ UNCHANGED <<preferVars, syftVars, spdxVars, relVars, parentVars, toolsVars,
                   baseVars, dockerVars>>

\* the rest of download_parent_image_sbom
DownloadSbom ==
    /\ dl_pc = "fetched"
    /\ cosign_command' = CosignCommand(dl_pullspec, dl_arch, oras_stdout.value)
    /\ \E stdout \in CosignOutputs :
          /\ cosign_stdout' = stdout
          /\ dl_pc' = AfterSbomDownload(stdout)
          /\ dl_result' = IF AfterSbomDownload(stdout) = "returned"
                          THEN stdout.value ELSE dl_result
    /\ UNCHANGED <<dl_pullspec, dl_arch, oras_stdout>>
    /\ UNCHANGED <<preferVars, syftVars, spdxVars, relVars, parentVars, toolsVars,
                   baseVars, dockerVars>>

NextDownload ==
    \/ FetchManifest
    \/ DownloadSbom

SpecDownload == InitDownload /\ [][NextDownload]_vars

(***************************************************************************)
(* base-images-sbom-script/app/base_images_sbom_script.py                  *)
(***************************************************************************)
\* str.split(sep): the pieces between the occurrences of the character sep
RECURSIVE Split(_, _)
Split(s, sep) ==
    IF \A i \in 1..Len(s) : s[i] # sep THEN <<s>>
    ELSE LET at == CHOOSE i \in 1..Len(s) :
                       s[i] = sep /\ \A j \in 1..(i - 1) : s[j] # sep
         IN <<SubSeq(s, 1, at - 1)>> \o Split(SubSeq(s, at + 1, Len(s)), sep)

\* str.rsplit(sep, 1): cut at the last occurrence of the character sep
RSplitOnce(s, sep) ==
    IF \A i \in 1..Len(s) : s[i] # sep THEN <<s>>
    ELSE LET at == CHOOSE i \in 1..Len(s) :
                       s[i] = sep /\ \A j \in (i + 1)..Len(s) : s[j] # sep
         IN <<SubSeq(s, 1, at - 1), SubSeq(s, at + 1, Len(s))>>

\* "".join: a sequence of characters as one string
RECURSIVE Str(_)
Str(s) == IF s = <<>> THEN "" ELSE Head(s) \o Str(Tail(s))

\* parse_image_reference_to_parts: ValueError when an unpacking does not
\* get two values
ParseImageReferenceToPartsRaises(image) ==
    \/ Len(Split(image, "@")) # 2
    \/ Len(RSplitOnce(Split(image, "@")[1], ":")) # 2

\* parse_image_reference_to_parts
ParseImageReferenceToParts(image) ==
    LET repository_with_tag == Split(image, "@")[1]
        repository == RSplitOnce(repository_with_tag, ":")[1]
        pieces == Split(repository, "/")
    IN [repository |-> repository, digest |-> Split(image, "@")[2],
        name |-> pieces[Len(pieces)]]

Oci == <<"o", "c", "i">>
RepositoryUrl == <<"r", "e", "p", "o", "s", "i", "t", "o", "r", "y", "_", "u", "r", "l">>

\* purl.to_string() of the PackageURL built from a parsed image
ImagePurl(parsed_image) ==
    PurlToString(Purl(Oci, <<>>, parsed_image.name, parsed_image.digest,
                      <<<<RepositoryUrl, parsed_image.repository>>>>, <<>>))

Property(name, value) == [name |-> name, value |-> value]

\* a choice that marks the last image as base image whatever the last stage is
StageProperty_IgnoreScratch(index, count, last_from_scratch) ==
    IF index = count - 1
    THEN Property("konflux:container:is_base_image", "true")
    ELSE Property("konflux:container:is_builder_image:for_stage", ToString(index))

\* the property of the image at index (counted from 0) among count images
StageProperty(index, count, last_from_scratch) ==
    IF index = count - 1 /\ ~last_from_scratch
    THEN Property("konflux:container:is_base_image", "true")
    ELSE Property("konflux:container:is_builder_image:for_stage", ToString(index))

BaseImageComponent(parsed_image, property) ==
    [type |-> "container", name |-> parsed_image.repository,
     purl |-> ImagePurl(parsed_image), properties |-> <<property>>]

\* the loop of get_base_images_sbom_components from index on
RECURSIVE ComponentsLoop(_, _, _, _)
ComponentsLoop(images, index, last_from_scratch, components) ==
    IF index = Len(images) THEN components
    ELSE LET parsed_image == ParseImageReferenceToParts(images[index + 1])
             property == StageProperty(index, Len(images), last_from_scratch)
             used == {i \in 1..Len(components) :
                         components[i].purl = ImagePurl(parsed_image)}
         IN ComponentsLoop(images, index + 1, last_from_scratch,
                IF used # {}
                THEN [i \in 1..Len(components) |->
                        IF i \in used
                        THEN [components[i] EXCEPT
                                 !.properties = Append(@, property)]
                        ELSE components[i]]
                ELSE Append(components, BaseImageComponent(parsed_image, property)))

\* get_base_images_sbom_components raises ValueError
GetBaseImagesSbomComponentsRaises(images) ==
    \E i \in 1..Len(images) : ParseImageReferenceToPartsRaises(images[i])

\* get_base_images_sbom_components, when it returns
GetBaseImagesSbomComponents(images, last_from_scratch) ==
    ComponentsLoop(images, 0, last_from_scratch, <<>>)

\* hashlib.sha256(...).hexdigest(): a digest that tells any two inputs apart
Sha256Hexdigest(s) == "sha256<" \o Str(s) \o ">"

\* the SPDXID main gives to the package of a component
ComponentSpdxId(component) ==
    "SPDXRef-" \o component.type \o "-" \o Str(component.name) \o "-"
        \o Sha256Hexdigest(component.purl)

\* a dump with the default separators of json.dumps
JsonDumpsProperty_DefaultSeparators(property) ==
    "{\"name\": \"" \o property.name \o "\", \"value\": \"" \o property.value \o "\"}"

\* json.dumps({"name": ..., "value": ...}, separators=(",", ":"))
JsonDumpsProperty(property) ==
    "{\"name\":\"" \o property.name \o "\",\"value\":\"" \o property.value \o "\"}"

UnknownMiddle == "SPDXRef-DocumentRoot-Unknown-"

\* the root element of the script's map_relationships, None without
\* relationships
BaseRootElement(rels) == IF rels = <<>> THEN None ELSE MapRelationshipsRoot(rels)

\* middle_element1 of main
BaseMiddleElement(rels) ==
    IF CalculateMiddleElement(BaseRootElement(rels), rels) \in {None, ""}
    THEN UnknownMiddle
    ELSE CalculateMiddleElement(BaseRootElement(rels), rels)

\* the package main appends for a component
ComponentPackage(component, annotation_date) ==
    [SPDXID |-> ComponentSpdxId(component),
     name |-> component.name,
     externalRefs |-> <<[referenceCategory |-> "PACKAGE-MANAGER",
                         referenceType |-> "purl",
                         referenceLocator |-> component.purl]>>,
     annotations |-> [i \in 1..Len(component.properties) |->
                         Annotation("konflux", JsonDumpsProperty(component.properties[i]),
                                    annotation_date, "OTHER")]]

\* main with --sbom-type spdx: the document it dumps
ExtendSpdx(sbom, components, annotation_date) ==
    LET rels == sbom.relationships
        unknown == CalculateMiddleElement(BaseRootElement(rels), rels) \in {None, ""}
    IN [sbom EXCEPT
          !.packages = @
              \o (IF unknown
                  THEN <<[SPDXID |-> UnknownMiddle, name |-> <<>>,
                          externalRefs |-> <<>>, annotations |-> <<>>]>>
                  ELSE <<>>)
              \o [i \in 1..Len(components) |->
                     ComponentPackage(components[i], annotation_date)],
          !.relationships = @
              \o (IF unknown
                  THEN <<Relationship(IF BaseRootElement(rels) \in {None, ""}
                                      THEN sbom.SPDXID ELSE BaseRootElement(rels),
                                      "DESCRIBES", UnknownMiddle)>>
                  ELSE <<>>)
              \o [i \in 1..Len(components) |->
                     Relationship(ComponentSpdxId(components[i]), "BUILD_TOOL_OF",
                                  BaseMiddleElement(rels))]]

\* spdx_tools parse_file on a dumped document: the annotations of the
\* packages become annotations of the document that name the package
ParseFile(sbom) ==
    Document([i \in 1..Len(sbom.packages) |-> [spdx_id |-> sbom.packages[i].SPDXID]],
             [i \in 1..Len(sbom.relationships) |->
                 Rel(sbom.relationships[i].spdxElementId,
                     sbom.relationships[i].relationshipType,
                     sbom.relationships[i].relatedSpdxElement)],
             Flatten([i \in 1..Len(sbom.packages) |->
                 [k \in 1..Len(sbom.packages[i].annotations) |->
                     DocAnnotation(sbom.packages[i].SPDXID,
                                   sbom.packages[i].annotations[k].comment)]]))

MaxImages == 3   \* lines of the --base-images-digests file

\* r/u:l@s:1, the same image under another tag, an image of a registry with
\* a port, and a line without a tag
ImageU1     == <<"r", "/", "u", ":", "l", "@", "s", ":", "1">>
ImageU1Tag  == <<"r", "/", "u", ":", "t", "@", "s", ":", "1">>
ImageV2     == <<"h", ":", "5", "/", "v", ":", "l", "@", "s", ":", "2">>
ImageNoTag  == <<"r", "/", "u", "@", "s", ":", "1">>

ImageUniverse == {ImageU1, ImageU1Tag, ImageV2, ImageNoTag}

SpdxSbom(pkgs, rels) == [SPDXID |-> "SPDXRef-DOCUMENT", packages |-> pkgs,
                         relationships |-> rels]

\* the documents syft and the merge hand to the script
BaseSbomRelationships ==
    {<<>>,
     <<Relationship("SPDXRef-DOCUMENT", "DESCRIBES", "SPDXRef-image")>>,
     <<Relationship("SPDXRef-DOCUMENT", "DESCRIBES", "SPDXRef-image"),
       Relationship("SPDXRef-image", "CONTAINS", "SPDXRef-Package-pkg")>>,
     <<Relationship("SPDXRef-image", "CONTAINS", "SPDXRef-Package-pkg")>>,
     <<Relationship("SPDXRef-DOCUMENT", "DESCRIBES", "SPDXRef-image"),
       Relationship("SPDXRef-image", "CONTAINS", "SPDXRef-Package-pkg"),
       Relationship("SPDXRef-image", "CONTAINS", "SPDXRef-Package-other")>>}

BaseSboms ==
    {SpdxSbom(<<[SPDXID |-> "SPDXRef-image", name |-> <<"i">>,
                 externalRefs |-> <<>>, annotations |-> <<>>]>>, rels) :
        rels \in BaseSbomRelationships}

InitBase ==
    /\ base_images_digests \in SeqsUpTo(ImageUniverse, MaxImages)
    /\ is_last_from_scratch \in BOOLEAN
    /\ base_sbom_in \in BaseSboms
    /\ base_components = <<>>
    /\ base_sbom = base_sbom_in
    /\ base_doc = Document(<<>>, <<>>, <<>>)
    /\ base_grandparent = None
    /\ base_pc = "input"
    /\ PreferIdle /\ SyftIdle /\ SpdxIdle /\ RelIdle /\ ParentIdle /\ ToolsIdle
    /\ DockerIdle /\ DownloadIdle

\* base_images_sbom_components = get_base_images_sbom_components(...)
CallGetBaseImagesSbomComponents ==
    /\ base_pc = "input"
    /\ IF GetBaseImagesSbomComponentsRaises(base_images_digests)
       THEN base_components' = base_components /\ base_pc' = "ValueError"
       ELSE /\ base_components' =
                  GetBaseImagesSbomComponents(base_images_digests, is_last_from_scratch)
            /\ base_pc' = "components"
    /\ UNCHANGED <<base_images_digests, is_last_from_scratch, base_sbom_in, base_sbom,
                   base_doc, base_grandparent>>
    /\ UNCHANGED <<preferVars, syftVars, spdxVars, relVars, parentVars, toolsVars,
                   dockerVars, downloadVars>>

\* the else branch of main and the dump of the document
DumpExtendedSpdx ==
    /\ base_pc = "components"
    /\ base_sbom' = ExtendSpdx(base_sbom, base_components, "now")
    /\ base_pc' = "dumped"
    /\ UNCHANGED <<base_images_digests, is_last_from_scratch, base_sbom_in,
                   base_components, base_doc, base_grandparent>>
    /\ UNCHANGED <<preferVars, syftVars, spdxVars, relVars, parentVars, toolsVars,
                   dockerVars, downloadVars>>

\* contextual-sbom main on the dumped document as the parent: parse_file and
\* get_used_parent_image_from_legacy_sbom
ParseAndIdentify ==
    /\ base_pc = "dumped"
    /\ base_doc' = ParseFile(base_sbom)
    /\ base_grandparent' = GetUsedParentImageFromLegacySbom(ParseFile(base_sbom))
    /\ base_pc' = "parsed"
    /\ UNCHANGED <<base_images_digests, is_last_from_scratch, base_sbom_in,
                   base_components, base_sbom>>
    /\ UNCHANGED <<preferVars, syftVars, spdxVars, relVars, parentVars, toolsVars,
                   dockerVars, downloadVars>>

\* adjust_parent_image_relationship_in_legacy_sbom on that document
RewriteLineage ==
    /\ base_pc = "parsed"
    /\ base_doc' = AdjustParentImageRelationshipInLegacySbom(base_doc, base_grandparent)
    /\ base_pc' = "adjusted"
    /\ UNCHANGED <<base_images_digests, is_last_from_scratch, base_sbom_in,
                   base_components, base_sbom, base_grandparent>>
    /\ UNCHANGED <<preferVars, syftVars, spdxVars, relVars, parentVars, toolsVars,
                   dockerVars, downloadVars>>

NextBase ==
    \/ CallGetBaseImagesSbomComponents
    \/ DumpExtendedSpdx
    \/ ParseAndIdentify
    \/ RewriteLineage

SpecBase == InitBase /\ [][NextBase]_vars

(***************************************************************************)
(* Properties of merge_by_prefering_cachi2                                 *)
(***************************************************************************)
\* the entries of the scanner list that the filter lets through
ScannerKept ==
    SelectSeq(syft_components, LAMBDA c : ~ComponentIsDuplicated(cachi2_components, c))

\* C1: merge_by_prefering_cachi2 returns the scanner entries that were not
\* filtered out, in their original order, followed by every resolver entry in
\* its original order and unmodified; with an empty scanner list the result is
\* the resolver list
C1_FilteredScannerThenResolver ==
    prefer_pc = "done" =>
        LET n == Len(merged) - Len(cachi2_components) IN
        /\ n = Len(ScannerKept)
        /\ SubSeq(merged, 1, n) = ScannerKept
        /\ SubSeq(merged, n + 1, Len(merged)) = cachi2_components
        /\ (syft_components = <<>> => merged = cachi2_components)

\* a merge that kept one scanner entry, dropped another and had resolver entries
C1_Witness ==
    /\ prefer_pc = "done"
    /\ Len(syft_components) = 2
    /\ Len(ScannerKept) = 1
    /\ Len(cachi2_components) = 2

\* the three reasons of the claim for dropping a scanner entry
IsLocalReplacement(c) ==
    /\ c.purl # NoPurl
    /\ c.purl.type = Golang
    /\ \/ StartsWith(c.name, <<".">>)
       \/ c.version = Devel
       \/ (c.purl.subpath # <<>> /\ ~SubpathIsVersion(c.purl.subpath))

IsNonRegistryDuplicate(c) ==
    \E j \in 1..Len(cachi2_components) :
        LET r == cachi2_components[j] IN
        /\ r.purl # NoPurl
        /\ r.purl.type \in {Pypi, Npm}
        /\ \E q \in 1..Len(r.purl.qualifiers) : r.purl.qualifiers[q][1] \in {VcsUrl, DownloadUrl}
        /\ r.name = c.name

HasResolverKey(c) ==
    \E j \in 1..Len(cachi2_components) :
        UniqueKeySyft(c) = UniqueKeyCachi2(cachi2_components[j])

\* C2: every scanner entry that is a golang local replacement, has the name of
\* a non-registry resolver entry, or whose fine-normalized key is the stripped
\* key of a resolver entry is absent from the result; resolver {ex} merged with
\* scanner {ex, local replacement} yields the resolver's ex alone
C2_DuplicatesAbsent ==
    prefer_pc = "done" =>
        /\ \A i \in 1..Len(syft_components) :
              LET c == syft_components[i] IN
              (IsLocalReplacement(c) \/ IsNonRegistryDuplicate(c) \/ HasResolverKey(c))
                  => c \notin SeqToSet(merged)
        /\ (syft_components = <<SyftEx, SyftLocal>> /\ cachi2_components = <<Cachi2Ex>>)
              => merged = <<Cachi2Ex>>

\* the scenario of the claim has run
C2_Witness ==
    /\ prefer_pc = "done"
    /\ syft_components = <<SyftEx, SyftLocal>>
    /\ cachi2_components = <<Cachi2Ex>>
    /\ merged = <<Cachi2Ex>>

(***************************************************************************)
(* Properties of merge_by_apparent_sameness and merge_n_syft_sboms         *)
(***************************************************************************)
\* the full purl string, or name@version without purl
FullKey(c) ==
    IF c.purl # NoPurl THEN PurlToString(c.purl) ELSE c.name \o <<"@">> \o c.version

\* items without every entry whose key occurred earlier
FirstOccurrences(items) ==
    LET keep == {i \in 1..Len(items) :
                    \A j \in 1..(i - 1) : FullKey(items[j]) # FullKey(items[i])}
        Nth(k) == CHOOSE i \in keep : Cardinality({j \in keep : j < i}) = k - 1
    IN [k \in 1..Cardinality(keep) |-> items[Nth(k)]]

DistinctKeys(items) ==
    \A i, j \in 1..Len(items) : FullKey(items[i]) = FullKey(items[j]) => i = j

AllComponents == Flatten([i \in 1..Len(sboms) |-> sboms[i].components])

\* C3 as stated: merge_n_syft_sboms yields the concatenation of all N lists
\* with every entry removed whose key already occurred
C3_ReduceIsDedupeOfConcatenation ==
    syft_pc = "done" => merged_sbom.components = FirstOccurrences(AllComponents)

\* C3 as amended: merge_by_apparent_sameness returns the concatenation of its
\* inputs without the entries whose full purl string (or name@version) already
\* occurred, so the keys of the result are pairwise distinct; reducing N >= 2
\* lists yields the deduplicated concatenation of all of them, and a single
\* list is returned as it is
C3_ReduceOfTwoOrMore ==
    /\ (syft_pc = "load" /\ Len(sboms) >= 2) =>
          LET m == MergeByApparentSameness(sboms[1].components, sboms[2].components) IN
          /\ m = FirstOccurrences(sboms[1].components \o sboms[2].components)
          /\ DistinctKeys(m)
    /\ (syft_pc = "done" /\ Len(sboms) >= 2) =>
          /\ merged_sbom.components = FirstOccurrences(AllComponents)
          /\ DistinctKeys(merged_sbom.components)
    /\ (syft_pc = "done" /\ Len(sboms) = 1) =>
          merged_sbom.components = sboms[1].components

\* three documents were reduced: the first entry of a key that the first and
\* the third document share was kept, and so was the entry that differs from
\* it in a qualifier only
C3_Witness ==
    /\ syft_pc = "done"
    /\ Len(sboms) = 3
    /\ sboms[1].components = <<One>>
    /\ sboms[2].components = <<Qual>>
    /\ sboms[3].components = <<Two>>
    /\ merged_sbom.components = <<One, Qual>>

(***************************************************************************)
(* Properties of merge_relationships                                       *)
(***************************************************************************)
Describes(rels) == {i \in 1..Len(rels) : rels[i].relationshipType = "DESCRIBES"}

PackageIds(pkgs) == {pkgs[i].SPDXID : i \in 1..Len(pkgs)}

OneDescribesAtRoot(rels, root) ==
    /\ Cardinality(Describes(rels)) = 1
    /\ \A i \in Describes(rels) : rels[i].spdxElementId = root

\* C4: for any R1, R2 and P the list merge_relationships returns has exactly
\* one DESCRIBES relationship, and its spdxElementId is the root of R1
C4_ExactlyOneDescribes ==
    rel_pc = "done" =>
        OneDescribesAtRoot(relationships, MapRelationshipsRoot(relationships1))

(***************************************************************************)
(* Properties of merge_sboms(format="spdx")                                *)
(***************************************************************************)
Endpoints(rels) ==
    {rels[i].spdxElementId : i \in 1..Len(rels)}
    \cup {rels[i].relatedSpdxElement : i \in 1..Len(rels)}

\* C5: after an SPDX merge every package of the output is an endpoint of an
\* output relationship
C5_EveryPackageReferenced ==
    spdx_pc = "done" =>
        \A i \in 1..Len(spdx_out.packages) :
            spdx_out.packages[i].SPDXID \in Endpoints(spdx_out.relationships)

\* the incoming wrapper was a package, lost its relationships to the base's
\* wrapper and is no package of the output, which has packages
C5_Witness ==
    /\ spdx_pc = "done"
    /\ Cachi2Wrapper \in SeqToSet(cachi2_sbom.packages)
    /\ "M2" \notin PackageIds(spdx_out.packages)
    /\ Len(spdx_out.packages) >= 2

BaseRoot == MapRelationshipsRoot(syft_sbom.relationships)
BaseMiddle == CalculateMiddleElement(BaseRoot, syft_sbom.relationships)

\* C6: after an SPDX merge no output relationship has an endpoint that is
\* neither a package of the output nor the base document's root or middle
C6_NoDanglingEndpoint ==
    spdx_pc = "done" =>
        Endpoints(spdx_out.relationships)
            \subseteq (PackageIds(spdx_out.packages) \cup {BaseRoot, BaseMiddle})

ScenarioBase == StructuredDoc("DOC", SyftWrapper, TRUE, <<SyftX>>, <<>>, <<"Tool: syft">>)
ScenarioIncoming ==
    StructuredDoc("DOC2", Cachi2Wrapper, TRUE, <<Cachi2B>>, <<>>, <<"Tool: cachi2">>)

\* C7: merging base {root1 DESCRIBES middle1, middle1 CONTAINS pkgA} with
\* incoming {root2 DESCRIBES middle2, middle2 CONTAINS pkgB} yields root1
\* DESCRIBES middle1, middle1 CONTAINS pkgA and middle1 CONTAINS pkgB, and
\* neither root2 nor middle2 is an endpoint or a package of the output
C7_RerootScenario ==
    (spdx_pc = "done" /\ syft_sbom = ScenarioBase /\ cachi2_sbom = ScenarioIncoming) =>
        /\ Len(spdx_out.relationships) = 3
        /\ SeqToSet(spdx_out.relationships) =
              {Relationship("DOC", "DESCRIBES", "M1"),
               Relationship("M1", "CONTAINS", "X"),
               Relationship("M1", "CONTAINS", "CB")}
        /\ Endpoints(spdx_out.relationships) \cap {"DOC2", "M2"} = {}
        /\ PackageIds(spdx_out.packages) = {"M1", "X", "CB"}

C7_Witness ==
    /\ spdx_pc = "done"
    /\ syft_sbom = ScenarioBase
    /\ cachi2_sbom = ScenarioIncoming
    /\ Relationship("M1", "CONTAINS", "CB") \in SeqToSet(spdx_out.relationships)

\* a purl key of the scanner package is a key of the resolver package
KeyMatch(p, c) ==
    SeqToSet(UniqueKeysSyftSpdx(p)) \cap SeqToSet(UniqueKeyCachi2Spdx(c)) # {}

\* every reference of pkg is in refs, purl qualifiers and letter case ignored
RefsCover(refs, pkg) ==
    \A i \in 1..Len(pkg.externalRefs) :
        \E k \in 1..Len(refs) : RefTuple(refs[k]) = RefTuple(pkg.externalRefs[i])

\* C8: whenever a scanner package is dropped because one of its keys matches
\* a resolver package, the resolver package of the output carries the
\* externalRefs and the annotations of both
C8_SurvivorCarriesUnion ==
    spdx_pc = "done" =>
        \A i \in 1..Len(syft_sbom.packages), j \in 1..Len(cachi2_sbom.packages),
           k \in 1..Len(spdx_out.packages) :
            LET p == syft_sbom.packages[i]
                c == cachi2_sbom.packages[j]
                o == spdx_out.packages[k]
            IN (KeyMatch(p, c) /\ o.SPDXID = c.SPDXID) =>
                /\ RefsCover(o.externalRefs, p) /\ RefsCover(o.externalRefs, c)
                /\ SeqToSet(p.annotations) \cup SeqToSet(c.annotations)
                      \subseteq SeqToSet(o.annotations)

(***************************************************************************)
(* Properties of the lineage rewrite                                       *)
(***************************************************************************)
\* the first annotation of the parsed document that bears the base-image
\* comment names id
AnnotatedBaseImage(id) ==
    \E i \in 1..Len(parent_orig.annotations) :
        /\ parent_orig.annotations[i] = DocAnnotation(id, IsBaseImageComment)
        /\ \A j \in 1..(i - 1) :
              parent_orig.annotations[j].annotation_comment # IsBaseImageComment

NoBaseImageAnnotation ==
    \A i \in 1..Len(parent_orig.annotations) :
        parent_orig.annotations[i].annotation_comment # IsBaseImageComment

RelsOfType(rels, type) == {i \in 1..Len(rels) : rels[i].relationship_type = type}

RelsFrom(rels, id) == {i \in 1..Len(rels) : rels[i].spdx_element_id = id}

\* C9: when the parsed parent document has no DESCENDANT_OF relationship and
\* exactly one relationship whose spdx_element_id is the annotated
\* base-image package, of type BUILD_TOOL_OF, the rewrite turns it into a
\* DESCENDANT_OF relationship with the two ends swapped, leaves the other
\* relationships and their number as they were, and the document then has
\* exactly one DESCENDANT_OF relationship
C9_BuildToolOfBecomesDescendantOf ==
    parent_pc = "adjusted" =>
        \A id \in {Image, Grandparent, Builder, Pkg} :
            \A i \in 1..Len(parent_orig.relationships) :
                ( /\ AnnotatedBaseImage(id)
                  /\ RelsOfType(parent_orig.relationships, "DESCENDANT_OF") = {}
                  /\ RelsFrom(parent_orig.relationships, id) = {i}
                  /\ parent_orig.relationships[i].relationship_type = "BUILD_TOOL_OF" )
                =>
                ( /\ Len(parent_sbom_doc.relationships) = Len(parent_orig.relationships)
                  /\ parent_sbom_doc.relationships[i] =
                        Rel(parent_orig.relationships[i].related_spdx_element_id,
                            "DESCENDANT_OF", id)
                  /\ \A j \in 1..Len(parent_orig.relationships) :
                        j # i => parent_sbom_doc.relationships[j] = parent_orig.relationships[j]
                  /\ RelsOfType(parent_sbom_doc.relationships, "DESCENDANT_OF") = {i} )

\* the grandparent's BUILD_TOOL_OF was rewritten among other relationships
C9_Witness ==
    /\ parent_pc = "adjusted"
    /\ AnnotatedBaseImage(Grandparent)
    /\ parent_orig.relationships =
          <<Rel("SPDXRef-DOCUMENT", "DESCRIBES", Image),
            Rel(Grandparent, "BUILD_TOOL_OF", Image),
            Rel(Builder, "BUILD_TOOL_OF", Image)>>
    /\ parent_sbom_doc.relationships[2] = Rel(Image, "DESCENDANT_OF", Grandparent)

\* one of the five cases in which the rewrite has nothing to do
C10_Case ==
    \/ NoBaseImageAnnotation
    \/ RelsOfType(parent_orig.relationships, "DESCENDANT_OF") # {}
    \/ \E id \in {Image, Grandparent, Builder, Pkg} :
          /\ AnnotatedBaseImage(id)
          /\ \/ RelsFrom(parent_orig.relationships, id) = {}
             \/ Cardinality(RelsFrom(parent_orig.relationships, id)) > 1
             \/ \E i \in 1..Len(parent_orig.relationships) :
                   /\ RelsFrom(parent_orig.relationships, id) = {i}
                   /\ parent_orig.relationships[i].relationship_type # "BUILD_TOOL_OF"

\* C10: the rewrite leaves every relationship as it was, and completes, when
\* the document has no base-image annotation, or already has a DESCENDANT_OF
\* relationship, or has no relationship whose spdx_element_id is the
\* annotated package, or more than one, or a single one that is not
\* BUILD_TOOL_OF
C10_OtherwiseUnchanged ==
    /\ []((parent_pc = "adjusted" /\ C10_Case) => parent_sbom_doc = parent_orig)
    /\ [][(parent_pc \in {"parsed", "identified"}) =>
          (parent_pc' \in {"identified", "adjusted"})]_vars

\* a DESCENDANT_OF was present next to a single BUILD_TOOL_OF of the
\* annotated package, and the rewrite completed
C10_Witness ==
    /\ parent_pc = "adjusted"
    /\ AnnotatedBaseImage(Grandparent)
    /\ parent_orig.relationships =
          <<Rel(Grandparent, "BUILD_TOOL_OF", Image), Rel(Image, "DESCENDANT_OF", Grandparent)>>
    /\ parent_sbom_doc.relationships = parent_orig.relationships

(***************************************************************************)
(* Properties of adjust_parent_image_spdx_element_ids and                  *)
(* remove_parent_image_builder_records                                     *)
(***************************************************************************)
\* the first relationship of the given type in rels, if there is one
FirstOfType(rels, type) ==
    {i \in RelsOfType(rels, type) : \A j \in RelsOfType(rels, type) : i <= j}

\* id is the target of the DESCRIBES relationship of the document before the call
SelfReferenceBefore(id) ==
    \E i \in FirstOfType(parent_prev.relationships, "DESCRIBES") :
        parent_prev.relationships[i].related_spdx_element_id = id

\* id is the related id of the DESCENDANT_OF relationship of the component document
ParentNameInComponent(id) ==
    \E i \in FirstOfType(component_sbom_doc.relationships, "DESCENDANT_OF") :
        component_sbom_doc.relationships[i].related_spdx_element_id = id

\* C11: after adjust_parent_image_spdx_element_ids no CONTAINS relationship
\* of the parent document has the parent's self-reference id (the target of
\* its DESCRIBES) as spdx_element_id: each such relationship, and the
\* DESCENDANT_OF relationship pointing at the grandparent, has as
\* spdx_element_id the related id of the component's DESCENDANT_OF, and the
\* related_spdx_element_id of every relationship is as it was
C11_SelfReferenceRenamed ==
    parent_pc = "renamed" =>
        \A self \in {Image, Grandparent, Builder, Pkg}, name \in {ParentName, Grandparent} :
            (SelfReferenceBefore(self) /\ ParentNameInComponent(name)) =>
                /\ Len(parent_sbom_doc.relationships) = Len(parent_prev.relationships)
                /\ \A i \in 1..Len(parent_prev.relationships) :
                      LET before == parent_prev.relationships[i]
                          after == parent_sbom_doc.relationships[i]
                      IN /\ after.related_spdx_element_id = before.related_spdx_element_id
                         /\ after.relationship_type = before.relationship_type
                         /\ (after.relationship_type = "CONTAINS")
                               => (after.spdx_element_id # self)
                         /\ (before.relationship_type = "CONTAINS"
                               /\ before.spdx_element_id = self)
                               => (after.spdx_element_id = name)
                         /\ (before.relationship_type = "DESCENDANT_OF"
                               /\ before.related_spdx_element_id = grandparent_spdx_id)
                               => (after.spdx_element_id = name)

\* the parent's CONTAINS and its rewritten DESCENDANT_OF were renamed, the
\* DESCRIBES was not
C11_Witness ==
    /\ parent_pc = "renamed"
    /\ grandparent_spdx_id = Grandparent
    /\ parent_orig.relationships =
          <<Rel("SPDXRef-DOCUMENT", "DESCRIBES", Image), Rel(Image, "CONTAINS", Pkg),
            Rel(Grandparent, "BUILD_TOOL_OF", Image)>>
    /\ parent_sbom_doc.relationships =
          <<Rel("SPDXRef-DOCUMENT", "DESCRIBES", Image), Rel(ParentName, "CONTAINS", Pkg),
            Rel(ParentName, "DESCENDANT_OF", Grandparent)>>

\* id was the spdx_element_id of a BUILD_TOOL_OF relationship before the call
WasBuildTool(id) ==
    \E i \in RelsOfType(parent_prev.relationships, "BUILD_TOOL_OF") :
        parent_prev.relationships[i].spdx_element_id = id

\* C12: after remove_parent_image_builder_records the parent document has no
\* BUILD_TOOL_OF relationship, no package whose id was the spdx_element_id of
\* a BUILD_TOOL_OF relationship and no annotation attached to such an id, and
\* every other relationship, package and annotation is kept in its order
C12_BuilderRecordsRemoved ==
    parent_pc = "cleaned" =>
        /\ RelsOfType(parent_sbom_doc.relationships, "BUILD_TOOL_OF") = {}
        /\ \A i \in 1..Len(parent_sbom_doc.packages) :
              ~WasBuildTool(parent_sbom_doc.packages[i].spdx_id)
        /\ \A i \in 1..Len(parent_sbom_doc.annotations) :
              ~WasBuildTool(parent_sbom_doc.annotations[i].spdx_id)
        /\ parent_sbom_doc.relationships =
              SelectSeq(parent_prev.relationships,
                        LAMBDA r : r.relationship_type # "BUILD_TOOL_OF")
        /\ parent_sbom_doc.packages =
              SelectSeq(parent_prev.packages, LAMBDA p : ~WasBuildTool(p.spdx_id))
        /\ parent_sbom_doc.annotations =
              SelectSeq(parent_prev.annotations, LAMBDA a : ~WasBuildTool(a.spdx_id))

\* a builder with its relationship and its annotation was removed from
\* between records that stayed
C12_Witness ==
    /\ parent_pc = "cleaned"
    /\ parent_prev.relationships =
          <<Rel("SPDXRef-DOCUMENT", "DESCRIBES", Image), Rel(Builder, "BUILD_TOOL_OF", Image),
            Rel(Image, "DESCENDANT_OF", Grandparent)>>
    /\ parent_prev.annotations =
          <<DocAnnotation(Builder, "{\"name\":\"konflux:container:is_builder_image:for_stage\",\"value\":\"0\"}"),
            DocAnnotation(Grandparent, IsBaseImageComment)>>
    /\ parent_sbom_doc =
          Document(<<[spdx_id |-> Image], [spdx_id |-> Grandparent], [spdx_id |-> Pkg]>>,
                   <<Rel("SPDXRef-DOCUMENT", "DESCRIBES", Image),
                     Rel(Image, "DESCENDANT_OF", Grandparent)>>,
                   <<DocAnnotation(Grandparent, IsBaseImageComment)>>)

(***************************************************************************)
(* Properties of a repeated merge_sboms(format="spdx")                     *)
(***************************************************************************)
\* C13: merging the output of an SPDX merge once more with a document that
\* contributes no real package (the empty skeleton, or a document with no
\* relationships) completes, and the packages and relationships of the
\* result are those of the document that was merged again
C13_RemergeIsNoOp ==
    spdx_pc \in {"again", "raised again"} =>
        /\ spdx_pc = "again"
        /\ SeqToSet(spdx_again.packages) = SeqToSet(spdx_out.packages)
        /\ SeqToSet(spdx_again.relationships) = SeqToSet(spdx_out.relationships)

(***************************************************************************)
(* Properties of merge_relationships on malformed input                    *)
(***************************************************************************)
\* C14: merge_relationships aborts, and returns no merged list, when one of
\* its two relationship lists contains no DESCRIBES relationship
C14_MissingDescribesIsFatal ==
    (rel_pc # "input"
        /\ (Describes(relationships1) = {} \/ Describes(relationships2) = {}))
    => (rel_pc = "raised" /\ relationships = <<>>)

(***************************************************************************)
(* Properties of adjust_parent_image_spdx_element_ids on malformed input   *)
(***************************************************************************)
\* C15: when the parent document has no DESCRIBES relationship,
\* adjust_parent_image_spdx_element_ids ends the process with exit status 1
\* and the parent document is, at that point, as it was before the call
C15_MissingDescribesExits ==
    (parent_pc \in {"renamed", "exit(1)", "IndexError"}
        /\ RelsOfType(parent_prev.relationships, "DESCRIBES") = {})
    => (ExitStatus(parent_pc) = 1 /\ parent_sbom_doc = parent_prev)

\* exit(1) on a parent document that had relationships to rename, the
\* component document naming its parent
C15_Witness ==
    /\ parent_pc = "exit(1)"
    /\ grandparent_spdx_id = Grandparent
    /\ parent_prev.relationships =
          <<Rel(Image, "CONTAINS", Pkg), Rel(Image, "DESCENDANT_OF", Grandparent)>>
    /\ component_sbom_doc.relationships = <<Rel(Image, "DESCENDANT_OF", ParentName)>>
    /\ parent_sbom_doc = parent_prev

(***************************************************************************)
(* C16: in merge_by_prefering_cachi2 a scanner entry without purl is kept  *)
(* in the result unless its name@version key equals the key of a resolver  *)
(* entry; no other condition removes it.                                   *)
(***************************************************************************)
PurlLess(components) == {c \in SeqToSet(components) : c.purl = NoPurl}

C16_PurlLessKeptUnlessKeyMatches ==
    prefer_pc = "done" =>
        \A c \in PurlLess(syft_components) :
            \/ c \in SeqToSet(merged)
            \/ UniqueKeySyft(c) \in Cachi2IndexedComponents(cachi2_components)

(***************************************************************************)
(* C17: merge_by_apparent_sameness(A, B) and merge_by_apparent_sameness(B, *)
(* A) contain the same set of keys, and for a key present in both lists    *)
(* the retained entry is the one of the first argument.                    *)
(***************************************************************************)
KeySet(components) == {ApparentKey(components[i]) : i \in 1..Len(components)}

FirstWithKey(components, k) ==
    components[CHOOSE i \in 1..Len(components) :
                  /\ ApparentKey(components[i]) = k
                  /\ \A j \in 1..(i - 1) : ApparentKey(components[j]) # k]

RetainsFirstArgument(result, components_a, components_b) ==
    \A i \in 1..Len(result) :
        LET k == ApparentKey(result[i]) IN
        (k \in KeySet(components_a) /\ k \in KeySet(components_b)) =>
            result[i] = FirstWithKey(components_a, k)

C17_SameKeysFirstArgumentWins ==
    /\ (syft_pc = "load" /\ Len(sboms) = 2) =>
        \A i, j \in 1..2 :
          LET a == sboms[i].components
              b == sboms[j].components
              ab == MergeByApparentSameness(a, b)
              ba == MergeByApparentSameness(b, a)
          IN /\ KeySet(ab) = KeySet(ba)
             /\ KeySet(ab) = KeySet(a) \cup KeySet(b)
             /\ RetainsFirstArgument(ab, a, b)
             /\ RetainsFirstArgument(ba, b, a)
    /\ (syft_pc = "done" /\ Len(sboms) = 2) =>
          /\ KeySet(merged_sbom.components) =
                KeySet(MergeByApparentSameness(sboms[2].components, sboms[1].components))
          /\ RetainsFirstArgument(merged_sbom.components,
                                  sboms[1].components, sboms[2].components)

\* [One] was merged with [Two, Bare]: One and Two have the same key, the
\* result keeps One, and the merge the other way round keeps Two
C17_Witness ==
    /\ syft_pc = "done"
    /\ Len(sboms) = 2
    /\ sboms[1].components = <<One>>
    /\ sboms[2].components = <<Two, Bare>>
    /\ merged_sbom.components = <<One, Bare>>
    /\ MergeByApparentSameness(sboms[2].components, sboms[1].components) = <<Two, Bare>>

(***************************************************************************)
(* C18: the externalRefs given to the surviving package when two packages  *)
(* are merged are ordered by (referenceCategory, referenceType,            *)
(* referenceLocator), represent every reference of either input, and hold  *)
(* no two entries that are equal once purl qualifiers are ignored.         *)
(***************************************************************************)
\* merge_packages merges the scanner package p into the resolver package at
\* position j of the resolver's list
MergedInto(p, j) ==
    /\ PackageIsDuplicated(cachi2_sbom.packages, p)
    /\ Cachi2PackagesMap(cachi2_sbom.packages, GetPackageKey(p)) = j

\* the last package of the output that has the given SPDXID (0: none)
Survivor(id) ==
    LET hits == {k \in 1..Len(spdx_out.packages) : spdx_out.packages[k].SPDXID = id}
    IN IF hits = {} THEN 0 ELSE CHOOSE k \in hits : \A h \in hits : h <= k

OrderedRefs(refs) == \A x, y \in 1..Len(refs) : x < y => ~RefLess(refs[y], refs[x])

NoTwoEqualRefs(refs) ==
    \A x, y \in 1..Len(refs) :
        WithoutQualifiers(refs[x]) = WithoutQualifiers(refs[y]) => x = y

C18_MergedRefsSortedCompleteDistinct ==
    spdx_pc = "done" =>
        \A i \in 1..Len(syft_sbom.packages), j \in 1..Len(cachi2_sbom.packages) :
            LET p == syft_sbom.packages[i]
                c == cachi2_sbom.packages[j]
                k == Survivor(c.SPDXID)
            IN (MergedInto(p, j) /\ k # 0) =>
                LET refs == spdx_out.packages[k].externalRefs IN
                /\ OrderedRefs(refs)
                /\ RefsCover(refs, p) /\ RefsCover(refs, c)
                /\ NoTwoEqualRefs(refs)

(***************************************************************************)
(* C19: after _merge_tools_metadata(left, right) the tools keep the shape  *)
(* of the left document, the tools of the right document are converted to  *)
(* that shape (vendor to author plus type application for the component    *)
(* shape, author to vendor for the flat shape), the left tools precede the *)
(* right ones, and no two tools of the result have the same (name,         *)
(* version).                                                               *)
(***************************************************************************)
\* the right document's tools in the shape of the left document
ConvertedTo(shape, tools) ==
    IF tools.shape = shape THEN tools.items
    ELSE [i \in 1..Len(tools.items) |->
            LET t == tools.items[i] IN
            IF shape = "dict"
            THEN [name |-> t.name, version |-> t.version, vendor |-> <<>>,
                  author |-> t.vendor, type |-> Application, purl |-> NoPurl]
            ELSE [name |-> t.name, version |-> t.version, vendor |-> t.author,
                  author |-> <<>>, type |-> <<>>, purl |-> NoPurl]]

\* the tools in their order, without those whose (name, version) occurred before
RECURSIVE FirstByNameVersion(_, _)
FirstByNameVersion(tools, seen) ==
    IF tools = <<>> THEN <<>>
    ELSE LET nv == <<Head(tools).name, Head(tools).version>> IN
         IF nv \in seen THEN FirstByNameVersion(Tail(tools), seen)
         ELSE <<Head(tools)>> \o FirstByNameVersion(Tail(tools), seen \cup {nv})

DistinctNameVersion(tools) ==
    \A i, j \in 1..Len(tools) :
        (tools[i].name = tools[j].name /\ tools[i].version = tools[j].version) => i = j

C19_ToolsKeepLeftShapeDeduped ==
    tools_pc = "done" =>
        LET left == sbom_a_tools
            right == sbom_b_tools
            out == merged_tools
        IN /\ out.shape = left.shape
           /\ out.items = FirstByNameVersion(left.items \o ConvertedTo(left.shape, right), {})
           /\ DistinctNameVersion(out.items)

(***************************************************************************)
(* C20: merging two CycloneDX documents aborts with a fatal error whenever *)
(* metadata.tools of the left document is neither an object nor a list,    *)
(* and no merged document is returned in that case.                        *)
(***************************************************************************)
InvalidTools(sbom) == sbom.tools.shape \notin {"dict", "list"}

C20_InvalidLeftToolsAborts ==
    /\ (syft_pc = "load" /\ Len(sboms) = 2 /\ InvalidTools(sboms[1])) =>
          MergeCyclonedxSboms(sboms[1], sboms[2]).raised
    /\ (syft_pc \in {"done", "raised"} /\ Len(sboms) >= 2 /\ InvalidTools(sboms[1])) =>
          /\ syft_pc = "raised"
          /\ merged_sbom = Sbom(<<>>, NoTools)

\* a document whose tools are a string was merged with a well-formed one: the
\* merge raised and returned nothing
C20_Witness ==
    /\ syft_pc = "raised"
    /\ Len(sboms) = 2
    /\ InvalidTools(sboms[1])
    /\ sboms[1].components = <<One>>
    /\ sboms[2] = Sbom(<<Two>>, [shape |-> "list", items |-> <<Syft14>>])
    /\ merged_sbom = Sbom(<<>>, NoTools)

(***************************************************************************)
(* C25: the root returned by map_relationships for a non-empty             *)
(* relationship set is the spdxElementId of some relationship and never    *)
(* the relatedSpdxElement of any relationship of that set.                 *)
(***************************************************************************)
Sources(rels) == {rels[i].spdxElementId : i \in 1..Len(rels)}

Targets(rels) == {rels[i].relatedSpdxElement : i \in 1..Len(rels)}

RootHasNoIncomingEdge(rels) ==
    rels # <<>> =>
        /\ MapRelationshipsRoot(rels) \in Sources(rels)
        /\ MapRelationshipsRoot(rels) \notin Targets(rels)

C25_RootIsNeverATarget ==
    rel_pc = "done" =>
        RootHasNoIncomingEdge(relationships1) /\ RootHasNoIncomingEdge(relationships2)

(***************************************************************************)
(* C26: whenever some element is both the target of a relationship whose   *)
(* source is the root and itself the source of a relationship,             *)
(* calculate_middle_element returns such an element; it returns no element *)
(* only when none exists.                                                  *)
(***************************************************************************)
MiddleCandidates(rels) ==
    {e \in Sources(rels) :
        \E i \in 1..Len(rels) :
            /\ rels[i].spdxElementId = MapRelationshipsRoot(rels)
            /\ rels[i].relatedSpdxElement = e}

MiddleIsACandidate(rels) ==
    LET middle == CalculateMiddleElement(MapRelationshipsRoot(rels), rels)
    IN IF MiddleCandidates(rels) = {} THEN middle = None
       ELSE middle \in MiddleCandidates(rels)

C26_MiddleFoundWheneverItExists ==
    rel_pc = "done" =>
        MiddleIsACandidate(relationships1) /\ MiddleIsACandidate(relationships2)

(***************************************************************************)
(* C27: the order of the lineage rewrite and of the stripping              *)
(***************************************************************************)
\* the parsed parent document is a legacy one (no DESCENDANT_OF) in which id
\* is the annotated base-image package, has a package, and is the source of
\* a single relationship, of type BUILD_TOOL_OF
LegacySingleBuildToolOf(id) ==
    /\ AnnotatedBaseImage(id)
    /\ \E i \in 1..Len(parent_orig.packages) : parent_orig.packages[i].spdx_id = id
    /\ RelsOfType(parent_orig.relationships, "DESCENDANT_OF") = {}
    /\ \E i \in 1..Len(parent_orig.relationships) :
          /\ RelsFrom(parent_orig.relationships, id) = {i}
          /\ parent_orig.relationships[i].relationship_type = "BUILD_TOOL_OF"

\* the parsed parent document after the stripping alone
StrippedFirst == RemoveParentImageBuilderRecords(parent_orig)

\* the lineage rewrite applied to the stripped document
RewrittenAfterStripping ==
    AdjustParentImageRelationshipInLegacySbom(
        StrippedFirst, GetUsedParentImageFromLegacySbom(StrippedFirst))

DescendantOfTo(doc, id) ==
    {i \in RelsOfType(doc.relationships, "DESCENDANT_OF") :
        doc.relationships[i].related_spdx_element_id = id}

\* C27: for a legacy parent document whose annotated base-image package is the
\* source of a single relationship, of type BUILD_TOOL_OF, the rewrite
\* followed by the stripping leaves the base-image package, its annotation,
\* exactly one DESCENDANT_OF relationship to it and no BUILD_TOOL_OF
\* relationship; the stripping applied first removes that package and that
\* relationship, and the rewrite applied to its result yields no
\* DESCENDANT_OF relationship
C27_RewriteThenStripKeepsLineage ==
    parent_pc = "cleaned" =>
        \A id \in {Image, Grandparent, Builder, Pkg} :
            LegacySingleBuildToolOf(id) =>
                /\ \E i \in 1..Len(parent_sbom_doc.packages) :
                      parent_sbom_doc.packages[i].spdx_id = id
                /\ \E i \in 1..Len(parent_sbom_doc.annotations) :
                      parent_sbom_doc.annotations[i] = DocAnnotation(id, IsBaseImageComment)
                /\ Cardinality(DescendantOfTo(parent_sbom_doc, id)) = 1
                /\ RelsOfType(parent_sbom_doc.relationships, "BUILD_TOOL_OF") = {}
                /\ \A i \in 1..Len(StrippedFirst.packages) :
                      StrippedFirst.packages[i].spdx_id # id
                /\ RelsFrom(StrippedFirst.relationships, id) = {}
                /\ RelsOfType(RewrittenAfterStripping.relationships, "DESCENDANT_OF") = {}

\* the annotated Grandparent was a build tool of Image next to another
\* builder, and both calls have run
C27_Witness ==
    /\ parent_pc = "cleaned"
    /\ LegacySingleBuildToolOf(Grandparent)
    /\ \E i \in 1..Len(parent_orig.relationships) :
          parent_orig.relationships[i] = Rel(Builder, "BUILD_TOOL_OF", Image)
    /\ parent_sbom_doc.relationships # <<>>

(***************************************************************************)
(* C28: what adjust_parent_image_spdx_element_ids changes                  *)
(***************************************************************************)
\* after differs from before in nothing but the spdx_element_id of
\* relationships whose spdx_element_id was the self-reference of before
OnlySelfReferenceSourcesRenamed(before, after) ==
    /\ after.packages = before.packages
    /\ after.annotations = before.annotations
    /\ Len(after.relationships) = Len(before.relationships)
    /\ \A i \in 1..Len(before.relationships) :
          /\ after.relationships[i].relationship_type =
                before.relationships[i].relationship_type
          /\ after.relationships[i].related_spdx_element_id =
                before.relationships[i].related_spdx_element_id
          /\ before.relationships[i].spdx_element_id # GetContentSelfReference(before)
                => after.relationships[i] = before.relationships[i]

\* C28: adjust_parent_image_spdx_element_ids changes only the spdx_element_id
\* field, and only of relationships whose spdx_element_id was the parent's
\* self-reference id before the call; relationships with any other source,
\* and all relationship types and related ids, are left unchanged
C28_OnlySelfReferenceSourcesChange ==
    parent_pc = "renamed" => OnlySelfReferenceSourcesRenamed(parent_prev, parent_sbom_doc)

(***************************************************************************)
(* C29: no relationship is left dangling by the stripping                  *)
(***************************************************************************)
\* the ids of the packages that are in before and no longer in after
RemovedPackageIds(before, after) ==
    {before.packages[i].spdx_id : i \in 1..Len(before.packages)}
        \ {after.packages[i].spdx_id : i \in 1..Len(after.packages)}

\* C29: after remove_parent_image_builder_records, no remaining relationship
\* of the parent document has the id of a removed builder package as its
\* spdx_element_id or related_spdx_element_id
C29_NoRelationshipMentionsRemovedBuilder ==
    parent_pc = "cleaned" =>
        \A i \in 1..Len(parent_sbom_doc.relationships) :
            /\ parent_sbom_doc.relationships[i].spdx_element_id
                  \notin RemovedPackageIds(parent_prev, parent_sbom_doc)
            /\ parent_sbom_doc.relationships[i].related_spdx_element_id
                  \notin RemovedPackageIds(parent_prev, parent_sbom_doc)

(***************************************************************************)
(* Properties of parsed_dockerfile.py                                      *)
(***************************************************************************)
\* the stage is not built from a previous stage and is either FROM scratch
\* or has a BaseName that is not empty and no oci-archive
IsListed(stage) ==
    /\ "Stage" \notin stage.From.keys
    /\ \/ stage.From.Scratch
       \/ stage.BaseName # <<>> /\ ~StartsWith(stage.BaseName, OciArchivePrefix)

\* C23: get_base_images returns, in stage order, one entry per stage that is
\* not built from a previous stage: None for a FROM scratch stage and the
\* BaseName of the stage otherwise, leaving out the stages whose BaseName is
\* empty or starts with "oci-archive:"
C23_BaseImagesInStageOrder ==
    docker_pc \in {"listed", "resolved", "ValueError"} =>
        LET kept == SelectSeq(parsed_dockerfile, IsListed)
        IN /\ Len(base_images) = Len(kept)
           /\ \A i \in 1..Len(kept) :
                 base_images[i] = IF kept[i].From.Scratch THEN NoName
                                  ELSE kept[i].BaseName

\* three stages, an oci-archive, an image and scratch, were listed
C23_Witness ==
    /\ docker_pc = "listed"
    /\ Len(parsed_dockerfile) = 3
    /\ parsed_dockerfile[1].BaseName = OciArchiveX
    /\ base_images = <<ImageU, NoName>>

\* chain lists the stages an alias is followed through, from the stage whose
\* alias is the target back to ever earlier stages
IsAliasChain(stages, target, chain) ==
    /\ \A k \in 1..Len(chain) :
          stages[chain[k]].As = IF k = 1 THEN target
                                ELSE stages[chain[k - 1]].BaseName
    /\ \A k \in 2..Len(chain) : chain[k] < chain[k - 1]

\* the name the chain ends at
ChainEnd(stages, target, chain) ==
    IF chain = <<>> THEN target ELSE stages[chain[Len(chain)]].BaseName

\* the name the chain ends at is not the alias of a stage before the last
\* stage of the chain
ChainIsComplete(stages, target, chain) ==
    \A i \in 1..Len(stages) :
        (chain = <<>> \/ i < chain[Len(chain)])
            => stages[i].As # ChainEnd(stages, target, chain)

\* C24: given a target stage, get_parent_image_pullspec follows the alias of
\* the target through the BaseName of ever earlier stages until it reaches a
\* name that is not the alias of an earlier stage, and returns that name, or
\* None when the name is "scratch" in any letter case; a target that is no
\* alias of a stage is its own chain
C24_TargetAliasResolved ==
    (docker_pc = "resolved" /\ Truthy(target_stage)) =>
        \E chain \in SeqsUpTo(1..Len(parsed_dockerfile), Len(parsed_dockerfile)) :
            /\ IsAliasChain(parsed_dockerfile, target_stage, chain)
            /\ ChainIsComplete(parsed_dockerfile, target_stage, chain)
            /\ parent_image =
                  IF Lower(ChainEnd(parsed_dockerfile, target_stage, chain)) = ScratchName
                  THEN NoName
                  ELSE ChainEnd(parsed_dockerfile, target_stage, chain)

\* the target c was resolved through b and a to the image of the first stage
C24_Witness ==
    /\ docker_pc = "resolved"
    /\ target_stage = StageAlias(3)
    /\ Len(parsed_dockerfile) = 3
    /\ parsed_dockerfile[3].BaseName = StageAlias(2)
    /\ parsed_dockerfile[2].BaseName = StageAlias(1)
    /\ parent_image = ImageU

(***************************************************************************)
(* C22: download_parent_image_sbom                                         *)
(***************************************************************************)
\* the output is not empty and json.loads returns a value for it
ParseableJson(stdout) == stdout.kind = "json"

DownloadEnded == dl_pc \notin {"idle", "called", "fetched"}

\* C22: download_parent_image_sbom returns a parsed document only when the
\* manifest fetch gave parseable JSON and the SBOM download gave parseable
\* JSON; in every other case (no pullspec, empty, or unparseable output of
\* either command) the process ends with exit status 0 and no document is
\* returned, and cosign is not run after a failed manifest fetch
C22_DocumentOrExitZero ==
    DownloadEnded =>
        /\ dl_pc = "returned" =>
              /\ ParseableJson(oras_stdout) /\ ParseableJson(cosign_stdout)
              /\ dl_result = cosign_stdout.value
        /\ ~(ParseableJson(oras_stdout) /\ ParseableJson(cosign_stdout)) =>
              /\ DownloadExitStatus(dl_pc) = 0
              /\ dl_result = NoJson
        /\ ~ParseableJson(oras_stdout) =>
              cosign_stdout = NotRun /\ cosign_command = <<>>

(***************************************************************************)
(* Properties of base_images_sbom_script.py                                *)
(***************************************************************************)
\* the purl of the image on line i (counted from 1) of the digests file
PurlOfLine(i) == ImagePurl(ParseImageReferenceToParts(base_images_digests[i]))

\* the lines whose image has the given purl
LinesWithPurl(purl) == {i \in 1..Len(base_images_digests) : PurlOfLine(i) = purl}

FirstLineWithPurl(purl) ==
    CHOOSE i \in LinesWithPurl(purl) : \A j \in LinesWithPurl(purl) : i <= j

\* the n-th line, in ascending order, of a set of lines
NthLine(lines, n) == CHOOSE i \in lines : Cardinality({j \in lines : j < i}) = n - 1

\* the property the image on line i is to get
ExpectedProperty(i) ==
    IF i = Len(base_images_digests) /\ ~is_last_from_scratch
    THEN [name |-> "konflux:container:is_base_image", value |-> "true"]
    ELSE [name |-> "konflux:container:is_builder_image:for_stage",
          value |-> ToString(i - 1)]

BaseImageProperties ==
    {<<k, j>> \in (1..Len(base_components)) \X (1..MaxImages + 1) :
        /\ j <= Len(base_components[k].properties)
        /\ base_components[k].properties[j].name = "konflux:container:is_base_image"}

\* C21: get_base_images_sbom_components returns one component per distinct
\* image purl, in the order of first occurrence, and one property per input
\* image: the image at index i gets is_builder_image:for_stage = i, except
\* the last one, which gets is_base_image = true when the last stage is not
\* from scratch; the properties of an image used in several stages are
\* appended to its one component, and at most one property marks a base image
C21_OneComponentPerPurlOnePropertyPerImage ==
    base_pc = "components" =>
        /\ {base_components[k].purl : k \in 1..Len(base_components)}
              = {PurlOfLine(i) : i \in 1..Len(base_images_digests)}
        /\ \A k, l \in 1..Len(base_components) :
              k < l => FirstLineWithPurl(base_components[k].purl)
                         < FirstLineWithPurl(base_components[l].purl)
        /\ \A k \in 1..Len(base_components) :
              LET lines == LinesWithPurl(base_components[k].purl)
              IN /\ Len(base_components[k].properties) = Cardinality(lines)
                 /\ \A j \in 1..Cardinality(lines) :
                       base_components[k].properties[j]
                           = ExpectedProperty(NthLine(lines, j))
        /\ Cardinality(BaseImageProperties) <= 1

\* three stages, the image of the first one used again under another tag in
\* the last one, which is not from scratch
C21_Witness ==
    /\ base_pc = "components"
    /\ base_images_digests = <<ImageU1, ImageV2, ImageU1Tag>>
    /\ ~is_last_from_scratch
    /\ Len(base_components) = 2
    /\ Len(base_components[1].properties) = 2

\* the SPDXID of the package synthesized for the image of the last line
FinalBaseImageId ==
    ComponentSpdxId(
        base_components[CHOOSE k \in 1..Len(base_components) :
            base_components[k].purl = PurlOfLine(Len(base_images_digests))])

====
